---- MODULE Spec2Model ----
(***************************************************************************)
(* k8s-acl-operator: the namespace selector, the RBAC manager's            *)
(* create-or-update protocol and the two reconcilers, as state machines.   *)
(*                                                                         *)
(* Strings that the Go code builds by concatenation are sequences of       *)
(* string atoms; a Go map is a record [isNil, kv] so that a nil map and an *)
(* empty map stay distinct; a pointer is a record [isNil, v].              *)
(***************************************************************************)
EXTENDS Integers, Sequences, FiniteSets, TLC

VARIABLES
    mIn,        \* the arguments of the function under evaluation (NamespaceMatches,
                \* mergeRules, mergeSubjects)
    mOut,       \* its result, or NoResult before the call
    objects,    \* the store's Roles, ClusterRoles, RoleBindings, ClusterRoleBindings
    namespaces, \* the store's namespaces
    configs,    \* the store's NamespaceRBACConfigs
    ap,         \* per worker: the frame of its ApplyRBACForNamespace call
    calls,      \* per worker: the store calls of its current ApplyRBACForNamespace call
    mgr,        \* the direct caller of the manager: its completed calls
    nsr,        \* the NamespaceReconciler's Reconcile invocation
    cfr,        \* the NamespaceRBACConfigReconciler's Reconcile invocation
    healthy,    \* the health.Checker's healthy flag
    faults,     \* store calls that failed with an injected error so far
    extWrites   \* writes by other clients of the store so far

vars == <<mIn, mOut, objects, namespaces, configs, ap, calls, mgr, nsr, cfr,
          healthy, faults, extWrites>>

\* ------------------------------------------------------------------------
\* Bounds

MaxListLen == 1
MaxFaults == 1
MaxExtWrites == 3
MaxApplies == 2
MaxPasses == 2

MaxGeneration == 2

MaxTemplateLen == 2

MaxAdvances == 3

TicksPerSecond == 2

\* ------------------------------------------------------------------------
\* Go values

NilMap == [isNil |-> TRUE, kv |-> [k \in {} |-> ""]]

GoMap(S, f) == [isNil |-> FALSE, kv |-> [k \in S |-> f[k]]]

NilPtr == [isNil |-> TRUE, v |-> ""]

Ptr(s) == [isNil |-> FALSE, v |-> s]

\* len(m) of a Go map: 0 for a nil map
HasKey(m, k) == k \in DOMAIN m.kv

Range(s) == {s[i] : i \in DOMAIN s}

SeqsUpTo(S, n) == UNION {[1..k -> S] : k \in 0..n}

NoResult == [called |-> FALSE, matched |-> FALSE, err |-> FALSE]

\* ------------------------------------------------------------------------
\* regexp.MatchString on the patterns and names of the model: the patterns
\* that compile, and the names each of them matches.

RegexLanguage ==
    [p \in {"", "^dev-.*"} |->
        IF p = "" THEN {"dev-a", "prod-a", "dev-b"} ELSE {"dev-a", "dev-b"}]

RegexpMatchString_NoError(pattern, s) ==
    [err |-> FALSE, matched |-> pattern \in DOMAIN RegexLanguage /\ s \in RegexLanguage[pattern]]

RegexpMatchString(pattern, s) ==
    IF pattern \in DOMAIN RegexLanguage
    THEN [err |-> FALSE, matched |-> s \in RegexLanguage[pattern]]
    ELSE [err |-> TRUE, matched |-> FALSE]

\* ------------------------------------------------------------------------
\* utils.NamespaceMatches

\* the loop over a required map: every key present with the same value
RequiredEntriesHold(required, actual) ==
    \A k \in DOMAIN required.kv :
        HasKey(actual, k) /\ actual.kv[k] = required.kv[k]

NamespaceMatches_RegexFirst(ns, selector) ==
    LET rx == IF ~selector.nameRegex.isNil /\ selector.nameRegex.v # ""
              THEN RegexpMatchString(selector.nameRegex.v, ns.name)
              ELSE [err |-> FALSE, matched |-> TRUE]
    IN  IF rx.err THEN [called |-> TRUE, matched |-> FALSE, err |-> TRUE]
        ELSE IF ~rx.matched THEN [called |-> TRUE, matched |-> FALSE, err |-> FALSE]
        ELSE IF ns.name \in Range(selector.excludeNamespaces)
        THEN [called |-> TRUE, matched |-> FALSE, err |-> FALSE]
        ELSE IF Len(selector.includeNamespaces) > 0
                /\ ns.name \notin Range(selector.includeNamespaces)
        THEN [called |-> TRUE, matched |-> FALSE, err |-> FALSE]
        ELSE IF ~selector.annotations.isNil
                /\ (ns.annotations.isNil
                    \/ ~RequiredEntriesHold(selector.annotations, ns.annotations))
        THEN [called |-> TRUE, matched |-> FALSE, err |-> FALSE]
        ELSE IF ~selector.labels.isNil
                /\ (ns.labels.isNil
                    \/ ~RequiredEntriesHold(selector.labels, ns.labels))
        THEN [called |-> TRUE, matched |-> FALSE, err |-> FALSE]
        ELSE [called |-> TRUE, matched |-> TRUE, err |-> FALSE]

NamespaceMatches(ns, selector) ==
    IF ns.name \in Range(selector.excludeNamespaces)
    THEN [called |-> TRUE, matched |-> FALSE, err |-> FALSE]
    ELSE IF Len(selector.includeNamespaces) > 0
            /\ ns.name \notin Range(selector.includeNamespaces)
    THEN [called |-> TRUE, matched |-> FALSE, err |-> FALSE]
    ELSE LET rx == IF ~selector.nameRegex.isNil /\ selector.nameRegex.v # ""
                   THEN RegexpMatchString(selector.nameRegex.v, ns.name)
                   ELSE [err |-> FALSE, matched |-> TRUE]
         IN  IF rx.err THEN [called |-> TRUE, matched |-> FALSE, err |-> TRUE]
             ELSE IF ~rx.matched
             THEN [called |-> TRUE, matched |-> FALSE, err |-> FALSE]
             ELSE IF ~selector.annotations.isNil
                     /\ (ns.annotations.isNil
                         \/ ~RequiredEntriesHold(selector.annotations, ns.annotations))
             THEN [called |-> TRUE, matched |-> FALSE, err |-> FALSE]
             ELSE IF ~selector.labels.isNil
                     /\ (ns.labels.isNil
                         \/ ~RequiredEntriesHold(selector.labels, ns.labels))
             THEN [called |-> TRUE, matched |-> FALSE, err |-> FALSE]
             ELSE [called |-> TRUE, matched |-> TRUE, err |-> FALSE]

\* ------------------------------------------------------------------------
\* Inputs of the selector evaluation

MatchNames == {"dev-a", "prod-a"}

RegexPtrs == {NilPtr, Ptr(""), Ptr("^dev-.*"), Ptr("[")}

LabelMaps ==
    {NilMap} \cup {GoMap(S, f) : S \in SUBSET {"team"}, f \in [{"team"} -> {"a", "b"}]}

AnnotationMaps ==
    {NilMap} \cup {GoMap(S, f) : S \in SUBSET {"team", "env"},
                                 f \in {[team |-> "a", env |-> "x"],
                                        [team |-> "b", env |-> "x"]}}

MatchNamespaces ==
    [name : MatchNames, labels : LabelMaps, annotations : AnnotationMaps]

MatchSelectors ==
    [nameRegex : RegexPtrs, annotations : AnnotationMaps, labels : LabelMaps,
     includeNamespaces : SeqsUpTo(MatchNames, MaxListLen),
     excludeNamespaces : SeqsUpTo(MatchNames, MaxListLen)]


\* ------------------------------------------------------------------------
\* template.Engine: a template string is a sequence of parts, a literal or a
\* reference into the context; the processed string is the sequence of the
\* substituted atoms.

Lit(s) == [t |-> "lit", v |-> s]

NsNameRef == [t |-> "ns", v |-> ""]

LabelRef(k) == [t |-> "label", v |-> k]

\* {{.Namespace.Annotations.k}}, {{.CustomVars.k}}, and a field the context
\* does not have, as {{.Namespace.Owner}}
AnnotationRef(k) == [t |-> "annotation", v |-> k]

CustomVarRef(k) == [t |-> "customVar", v |-> k]

FieldRef(f) == [t |-> "field", v |-> f]

\* {{getOrDefault .Namespace.Labels "k" "d"}}, {{hasKey .Namespace.Labels "k"}}
\* and {{default "d" .Namespace.Labels.k}}; m names the map of the context
GetOrDefaultCall(m, k, d) == [t |-> "getOrDefault", m |-> m, v |-> k, d |-> d]

HasKeyCall(m, k) == [t |-> "hasKey", m |-> m, v |-> k]

DefaultCall(d, m, k) == [t |-> "default", m |-> m, v |-> k, d |-> d]

\* the built-ins of NewEngine; a value is nil or a string
default(defaultVal, val) ==
    IF val.isNil \/ val.v = "" THEN defaultVal ELSE val

hasKey(m, key) ==
    IF m.isNil THEN FALSE ELSE key \in DOMAIN m.kv

getOrDefault_EmptyIsMissing(m, key, defaultVal) ==
    IF m.isNil \/ key \notin DOMAIN m.kv \/ m.kv[key] = "" THEN defaultVal ELSE m.kv[key]

getOrDefault(m, key, defaultVal) ==
    IF m.isNil THEN defaultVal
    ELSE IF key \in DOMAIN m.kv THEN m.kv[key]
    ELSE defaultVal

\* BuildContext: the namespace's label and annotation maps are never nil;
\* the declarations of the model carry no templateVariables
BuildContext(ns, config) ==
    [nsName |-> ns.name,
     labels |-> IF ns.labels.isNil THEN GoMap({}, <<>>) ELSE ns.labels,
     annotations |-> IF ns.annotations.isNil THEN GoMap({}, <<>>) ELSE ns.annotations,
     customVars |-> GoMap({}, <<>>),
     crdName |-> config.name]

\* the map of the context that a part reads
ContextMap(m, ctx) ==
    CASE m = "labels" -> ctx.labels
      [] m = "annotations" -> ctx.annotations
      [] m = "customVars" -> ctx.customVars

MapOfRef(part) ==
    CASE part.t = "label" -> "labels"
      [] part.t = "annotation" -> "annotations"
      [] part.t = "customVar" -> "customVars"

PartFails_MissingKeyDefault(part, ctx) == part.t = "field"

\* one part under missingkey=error: a field the context does not have, or
\* a key that the map does not have, nil map included, fails; the argument
\* of default is evaluated before default is called
PartFails(part, ctx) ==
    CASE part.t \in {"label", "annotation", "customVar"} ->
             part.v \notin DOMAIN ContextMap(MapOfRef(part), ctx).kv
      [] part.t = "field" -> TRUE
      [] part.t = "default" -> part.v \notin DOMAIN ContextMap(part.m, ctx).kv
      [] OTHER -> FALSE

PartValue_NoSubstitution(part, ctx) == part.v

\* a key that the map does not have prints as the zero value under
\* missingkey=default; true and false print as words
PartValue(part, ctx) ==
    CASE part.t = "lit" -> part.v
      [] part.t = "ns" -> ctx.nsName
      [] part.t \in {"label", "annotation", "customVar"} ->
             LET m == ContextMap(MapOfRef(part), ctx)
             IN  IF HasKey(m, part.v) THEN m.kv[part.v] ELSE ""
      [] part.t = "getOrDefault" -> getOrDefault(ContextMap(part.m, ctx), part.v, part.d)
      [] part.t = "hasKey" ->
             IF hasKey(ContextMap(part.m, ctx), part.v) THEN "true" ELSE "false"
      [] part.t = "default" ->
             LET m == ContextMap(part.m, ctx)
             IN  default(Ptr(part.d),
                         Ptr(IF HasKey(m, part.v) THEN m.kv[part.v] ELSE "")).v
      [] OTHER -> ""

ProcessTemplate(templateStr, ctx) ==
    IF \E i \in DOMAIN templateStr : PartFails(templateStr[i], ctx)
    THEN [err |-> TRUE, val |-> <<>>]
    ELSE [err |-> FALSE, val |-> [i \in DOMAIN templateStr |-> PartValue(templateStr[i], ctx)]]

ProcessMap(templateMap, ctx) ==
    IF templateMap.isNil THEN [err |-> FALSE, val |-> NilMap]
    ELSE IF \E k \in DOMAIN templateMap.kv : ProcessTemplate(templateMap.kv[k], ctx).err
    THEN [err |-> TRUE, val |-> NilMap]
    ELSE [err |-> FALSE,
          val |-> [isNil |-> FALSE,
                   kv |-> [k \in DOMAIN templateMap.kv |->
                              ProcessTemplate(templateMap.kv[k], ctx).val]]]

\* ------------------------------------------------------------------------
\* rbac.Manager: building the object of one template

OwnerLabel == "rbac.operator.io/owned-by"

ConfigLabel == "rbac.operator.io/config"

NamespaceLabel == "rbac.operator.io/namespace"

ManagedKeys_NoNamespace(targetNamespace) == {OwnerLabel, ConfigLabel}

ManagedKeys(targetNamespace) ==
    {OwnerLabel, ConfigLabel} \cup (IF targetNamespace # "" THEN {NamespaceLabel} ELSE {})

mergeLabels_TemplateWins(templateLabels, config, targetNamespace) ==
    [k \in DOMAIN templateLabels.kv \cup ManagedKeys(targetNamespace) |->
        CASE k \in DOMAIN templateLabels.kv -> templateLabels.kv[k]
          [] k = OwnerLabel -> <<"namespace-rbac-operator">>
          [] k = ConfigLabel -> <<config.name>>
          [] OTHER -> <<targetNamespace>>]

\* the template's labels, then the operator's labels over them
mergeLabels(templateLabels, config, targetNamespace) ==
    [k \in DOMAIN templateLabels.kv \cup ManagedKeys(targetNamespace) |->
        CASE k = OwnerLabel -> <<"namespace-rbac-operator">>
          [] k = ConfigLabel -> <<config.name>>
          [] k = NamespaceLabel /\ targetNamespace # "" -> <<targetNamespace>>
          [] OTHER -> templateLabels.kv[k]]

\* processSubjects: the name always, the namespace when it is not empty
SubjectFails(subject, ctx) ==
    \/ ProcessTemplate(subject.name, ctx).err
    \/ subject.namespace # <<>> /\ ProcessTemplate(subject.namespace, ctx).err

processSubjects(subjects, ctx) ==
    IF \E i \in DOMAIN subjects : SubjectFails(subjects[i], ctx)
    THEN [err |-> TRUE, val |-> <<>>]
    ELSE [err |-> FALSE,
          val |-> [i \in DOMAIN subjects |->
                     [kind |-> subjects[i].kind,
                      apiGroup |-> subjects[i].apiGroup,
                      name |-> ProcessTemplate(subjects[i].name, ctx).val,
                      namespace |-> IF subjects[i].namespace # <<>>
                                    THEN ProcessTemplate(subjects[i].namespace, ctx).val
                                    ELSE <<>>]]]

NamespaceScoped(kind) == kind \in {"Role", "RoleBinding"}

IsBinding(kind) == kind \in {"RoleBinding", "ClusterRoleBinding"}

KeyOf(obj) == [kind |-> obj.kind, namespace |-> obj.namespace, name |-> obj.name]

\* applyRole, applyClusterRole, applyRoleBinding, applyClusterRoleBinding up
\* to the createOrUpdate call: the substitutions in the code's order, then
\* the object
BuildObject(kind, ns, config, template) ==
    LET ctx == BuildContext(ns, config)
        name == ProcessTemplate(template.name, ctx)
        labels == ProcessMap(template.labels, ctx)
        annotations == ProcessMap(template.annotations, ctx)
        roleRef == IF IsBinding(kind) THEN ProcessTemplate(template.roleRefName, ctx)
                   ELSE [err |-> FALSE, val |-> <<>>]
        subjects == IF IsBinding(kind) THEN processSubjects(template.subjects, ctx)
                    ELSE [err |-> FALSE, val |-> <<>>]
    IN  IF name.err \/ labels.err \/ annotations.err \/ roleRef.err \/ subjects.err
        THEN [err |-> TRUE, obj |-> <<>>]
        ELSE [err |-> FALSE,
              obj |-> [kind |-> kind,
                       name |-> name.val,
                       namespace |-> IF NamespaceScoped(kind) THEN ns.name ELSE "",
                       labels |-> mergeLabels(labels.val, config, ns.name),
                       annotations |-> annotations.val,
                       rules |-> IF IsBinding(kind) THEN <<>> ELSE template.rules,
                       roleRef |-> roleRef.val,
                       subjects |-> subjects.val,
                       owner |-> IF NamespaceScoped(kind) THEN ns.name ELSE "",
                       rv |-> 0]]

\* ------------------------------------------------------------------------
\* rbac.Manager: merging

mergeRules_NewFirst(existing, new) == new \o existing

\* a copy of existing with new appended
mergeRules(existing, new) == existing \o new

\* fmt.Sprintf("%s/%s/%s/%s", Kind, APIGroup, Name, Namespace): the four
\* strings joined into one, so that the key does not tell where one field
\* ends when a field holds a "/"
SubjectKey(subject) ==
    <<subject.kind, "/", subject.apiGroup, "/">> \o subject.name \o <<"/">>
        \o subject.namespace

\* the subjects of the map built by mergeSubjects: per key, the last one put
MergedSubjectSet(existing, new) ==
    LET all == existing \o new
        last(k) == CHOOSE i \in DOMAIN all :
                      /\ SubjectKey(all[i]) = k
                      /\ \A j \in DOMAIN all : SubjectKey(all[j]) = k => j <= i
    IN  {all[last(k)] : k \in {SubjectKey(all[i]) : i \in DOMAIN all}}

Perms(S) == {f \in [1..Cardinality(S) -> S] : Range(f) = S}

\* mergeSubjects ranges over a Go map to build its result: every order of
\* the merged subjects is a possible result
mergeSubjects(existing, new) == Perms(MergedSubjectSet(existing, new))

\* the merge strategy in force: the config's, else merge
EffectiveStrategy(config) ==
    IF ~config.mergeStrategy.isNil THEN config.mergeStrategy.v ELSE "merge"


\* ------------------------------------------------------------------------
\* rbac.Manager: ApplyRBACForNamespace as a sequence of store calls.  A
\* worker's frame holds where its call stands: the template in hand (phase,
\* idx), the attempt i of the createOrUpdate loop, the object built from the
\* template, and the error the call returns.

Workers == {"mgr", "nsr", "cfr"}

retry == 3

ApplyPhases_BindingsFirst == <<"Role", "RoleBinding", "ClusterRole", "ClusterRoleBinding">>

ApplyPhases == <<"Role", "ClusterRole", "RoleBinding", "ClusterRoleBinding">>

TemplatesOf(config, kind) ==
    CASE kind = "Role" -> config.templates.roles
      [] kind = "ClusterRole" -> config.templates.clusterRoles
      [] kind = "RoleBinding" -> config.templates.roleBindings
      [] kind = "ClusterRoleBinding" -> config.templates.clusterRoleBindings

NoNs == [name |-> "", labels |-> NilMap, annotations |-> NilMap]

NoObj == [kind |-> "", name |-> <<>>, namespace |-> ""]

NoCfg == [name |-> ""]

\* the kinds main registers in the scheme of the client that both
\* reconcilers and their managers use
MainScheme ==
    {"Namespace", "Role", "ClusterRole", "RoleBinding", "ClusterRoleBinding",
     "NamespaceRBACConfig"}

\* scheme is m.Scheme(), the scheme of the client NewManager was given; a
\* frame keeps it from call to call
IdleFrame ==
    [pc |-> "idle", ns |-> NoNs, cfg |-> NoCfg, phase |-> 0, idx |-> 0, i |-> 0,
     obj |-> NoObj, err |-> "", scheme |-> MainScheme]

\* the template after (phase, idx) in the order of the four loops; phase 5
\* when there is none
NextPos(config, phase, idx) ==
    IF phase \in 1..4 /\ idx < Len(TemplatesOf(config, ApplyPhases[phase]))
    THEN <<phase, idx + 1>>
    ELSE LET later == {p \in (phase + 1)..4 : Len(TemplatesOf(config, ApplyPhases[p])) > 0}
         IN  IF later = {} THEN <<5, 0>>
             ELSE <<CHOOSE p \in later : \A q \in later : p <= q, 1>>

\* the switch on the merge strategy of createOrUpdate*, given the object
\* fetched; subjects is the result of mergeSubjects
ResolveExisting_IgnoreUpdates(strategy, obj, existing, subjects) ==
    CASE strategy \in {"replace", "ignore"} ->
            [act |-> "update", err |-> "", obj |-> [obj EXCEPT !.rv = existing.rv]]
      [] strategy = "merge" ->
            [act |-> "update", err |-> "",
             obj |-> [obj EXCEPT !.rules = IF IsBinding(obj.kind) THEN obj.rules
                                           ELSE mergeRules(existing.rules, obj.rules),
                                 !.subjects = IF IsBinding(obj.kind) THEN subjects
                                              ELSE obj.subjects,
                                 !.rv = existing.rv]]
      [] OTHER -> [act |-> "return", err |-> "unknownstrategy", obj |-> obj]

ResolveExisting_ReplaceMerges(strategy, obj, existing, subjects) ==
    CASE strategy = "ignore" -> [act |-> "return", err |-> "", obj |-> obj]
      [] strategy \in {"merge", "replace"} ->
            [act |-> "update", err |-> "",
             obj |-> [obj EXCEPT !.rules = IF IsBinding(obj.kind) THEN obj.rules
                                           ELSE mergeRules(existing.rules, obj.rules),
                                 !.subjects = IF IsBinding(obj.kind)
                                              THEN existing.subjects \o obj.subjects
                                              ELSE obj.subjects,
                                 !.rv = existing.rv]]
      [] OTHER -> [act |-> "return", err |-> "unknownstrategy", obj |-> obj]

ResolveExisting(strategy, obj, existing, subjects) ==
    CASE strategy = "ignore" -> [act |-> "return", err |-> "", obj |-> obj]
      [] strategy = "replace" ->
            [act |-> "update", err |-> "", obj |-> [obj EXCEPT !.rv = existing.rv]]
      [] strategy = "merge" ->
            [act |-> "update", err |-> "",
             obj |-> [obj EXCEPT !.rules = IF IsBinding(obj.kind) THEN obj.rules
                                           ELSE mergeRules(existing.rules, obj.rules),
                                 !.subjects = IF IsBinding(obj.kind) THEN subjects
                                              ELSE obj.subjects,
                                 !.rv = existing.rv]]
      [] OTHER -> [act |-> "return", err |-> "unknownstrategy", obj |-> obj]

\* what createOrUpdate* does with a version conflict on attempt i: "retry",
\* or the error it returns
OnConflict_ClusterRetries(kind, i) ==
    IF i + 1 < retry THEN "retry" ELSE "retries"

OnConflict(kind, i) ==
    IF NamespaceScoped(kind)
    THEN (IF i + 1 < retry THEN "retry" ELSE "retries")
    ELSE "conflict"

Logged(w, op, res) ==
    Append(calls[w], [op |-> op, kind |-> ap[w].obj.kind, idx |-> ap[w].idx,
                      att |-> ap[w].i, res |-> res])

Returned(f, err) == [IdleFrame EXCEPT !.pc = "ret", !.err = err, !.scheme = f.scheme]

\* the template's createOrUpdate returned nil: applyRole goes on to its Get
\* for the metrics label, the other kinds to the next template
Succeeded(f) ==
    IF f.obj.kind = "Role" THEN [f EXCEPT !.pc = "probe"] ELSE [f EXCEPT !.pc = "next"]

FailChoices == {FALSE} \cup (IF faults < MaxFaults THEN {TRUE} ELSE {})

\* controllerutil.SetControllerReference(ns, object, m.Scheme()): the owner's
\* kind is looked up in the scheme; a namespace is cluster-scoped and the
\* object is new, so the other checks pass
SetControllerReference_Unchecked(ns, obj, sch) ==
    [err |-> FALSE, obj |-> [obj EXCEPT !.owner = ns.name]]

SetControllerReference(ns, obj, sch) ==
    IF "Namespace" \in sch
    THEN [err |-> FALSE, obj |-> [obj EXCEPT !.owner = ns.name]]
    ELSE [err |-> TRUE, obj |-> obj]

\* a caller enters ApplyRBACForNamespace(ns, config)
StartApply(w, ns, config) ==
    /\ ap' = [ap EXCEPT ![w] = [IdleFrame EXCEPT !.pc = "next", !.ns = ns,
                                                 !.scheme = ap[w].scheme,
                                                 !.cfg = config, !.phase = 1]]
    /\ calls' = [calls EXCEPT ![w] = <<>>]

\* the loops of ApplyRBACForNamespace reach the next template: substitute
\* and build its object, or return
ApplyTemplate(w) ==
    /\ ap[w].pc = "next"
    /\ LET f == ap[w]
           pos == NextPos(f.cfg, f.phase, f.idx)
       IN  IF pos[1] = 5
           THEN ap' = [ap EXCEPT ![w] = Returned(f, "")]
           ELSE LET kind == ApplyPhases[pos[1]]
                    b == BuildObject(kind, f.ns, f.cfg, TemplatesOf(f.cfg, kind)[pos[2]])
                    o == IF NamespaceScoped(kind) /\ ~b.err
                         THEN SetControllerReference(f.ns, b.obj, f.scheme)
                         ELSE [err |-> FALSE, obj |-> b.obj]
                IN  IF b.err
                    THEN ap' = [ap EXCEPT ![w] = Returned(f, "template")]
                    ELSE IF o.err
                    THEN ap' = [ap EXCEPT ![w] = Returned(f, "ownerref")]
                    ELSE ap' = [ap EXCEPT ![w] = [f EXCEPT !.pc = "get", !.phase = pos[1],
                                                           !.idx = pos[2], !.i = 0,
                                                           !.obj = o.obj]]
    /\ UNCHANGED <<mIn, mOut, objects, namespaces, configs, calls, mgr, nsr, cfr,
                   healthy, faults, extWrites>>

\* what createOrUpdate* does when m.Get returned the error res: "create" on
\* not-found, else it returns the error
AfterGetError_AlwaysCreate(res) == "create"

AfterGetError_NeverCreate(res) == "return"

AfterGetError(res) == IF res = "notfound" THEN "create" ELSE "return"

\* m.Get of createOrUpdate*, and the switch on the strategy when it found
\* the object
Get(w) ==
    /\ ap[w].pc = "get"
    /\ LET f == ap[w]
           key == KeyOf(f.obj)
       IN  \E fail \in FailChoices :
             LET res == IF fail THEN "forbidden"
                        ELSE IF key \notin DOMAIN objects THEN "notfound" ELSE "found"
             IN  /\ calls' = [calls EXCEPT ![w] = Logged(w, "get", res)]
                 /\ faults' = IF fail THEN faults + 1 ELSE faults
                 /\ IF res # "found"
                    THEN ap' = [ap EXCEPT ![w] =
                                  IF AfterGetError(res) = "create"
                                  THEN [f EXCEPT !.pc = "create"]
                                  ELSE Returned(f, res)]
                    ELSE LET existing == objects[key]
                             strategy == EffectiveStrategy(f.cfg)
                         IN  \E subjects \in
                                   (IF strategy = "merge" /\ IsBinding(f.obj.kind)
                                    THEN mergeSubjects(existing.subjects, f.obj.subjects)
                                    ELSE {f.obj.subjects}) :
                               LET r == ResolveExisting(strategy, f.obj, existing, subjects)
                               IN  ap' = [ap EXCEPT ![w] =
                                            IF r.act = "update"
                                            THEN [f EXCEPT !.pc = "update", !.obj = r.obj]
                                            ELSE IF r.err = "" THEN Succeeded(f)
                                            ELSE Returned(f, r.err)]
    /\ UNCHANGED <<mIn, mOut, objects, namespaces, configs, mgr, nsr, cfr, healthy,
                   extWrites>>

Create_RetriesAlreadyExists(w) ==
    /\ ap[w].pc = "create"
    /\ LET f == ap[w]
           key == KeyOf(f.obj)
       IN  IF key \in DOMAIN objects
           THEN /\ ap' = [ap EXCEPT ![w] = [f EXCEPT !.pc = "get", !.i = f.i + 1]]
                /\ calls' = [calls EXCEPT ![w] = Logged(w, "create", "alreadyexists")]
                /\ objects' = objects
           ELSE /\ ap' = [ap EXCEPT ![w] = Succeeded(f)]
                /\ calls' = [calls EXCEPT ![w] = Logged(w, "create", "")]
                /\ objects' = [k \in DOMAIN objects \cup {key} |->
                                  IF k = key THEN [f.obj EXCEPT !.rv = 1] ELSE objects[k]]
    /\ UNCHANGED <<mIn, mOut, namespaces, configs, mgr, nsr, cfr, healthy, faults,
                   extWrites>>

\* m.Create after a not-found
Create(w) ==
    /\ ap[w].pc = "create"
    /\ LET f == ap[w]
           key == KeyOf(f.obj)
       IN  \E fail \in FailChoices :
             IF fail
             THEN /\ ap' = [ap EXCEPT ![w] = Returned(f, "forbidden")]
                  /\ calls' = [calls EXCEPT ![w] = Logged(w, "create", "forbidden")]
                  /\ faults' = faults + 1
                  /\ objects' = objects
             ELSE IF key \in DOMAIN objects
             THEN /\ ap' = [ap EXCEPT ![w] = Returned(f, "alreadyexists")]
                  /\ calls' = [calls EXCEPT ![w] = Logged(w, "create", "alreadyexists")]
                  /\ faults' = faults
                  /\ objects' = objects
             ELSE /\ ap' = [ap EXCEPT ![w] = Succeeded(f)]
                  /\ calls' = [calls EXCEPT ![w] = Logged(w, "create", "")]
                  /\ faults' = faults
                  /\ objects' = [k \in DOMAIN objects \cup {key} |->
                                    IF k = key THEN [f.obj EXCEPT !.rv = 1] ELSE objects[k]]
    /\ UNCHANGED <<mIn, mOut, namespaces, configs, mgr, nsr, cfr, healthy, extWrites>>

\* m.Update with the fetched version token, and the end of the loop body
Update(w) ==
    /\ ap[w].pc = "update"
    /\ LET f == ap[w]
           key == KeyOf(f.obj)
       IN  \E fail \in FailChoices :
             IF fail
             THEN /\ ap' = [ap EXCEPT ![w] = Returned(f, "forbidden")]
                  /\ calls' = [calls EXCEPT ![w] = Logged(w, "update", "forbidden")]
                  /\ faults' = faults + 1
                  /\ objects' = objects
             ELSE IF key \notin DOMAIN objects
             THEN /\ ap' = [ap EXCEPT ![w] = Returned(f, "notfound")]
                  /\ calls' = [calls EXCEPT ![w] = Logged(w, "update", "notfound")]
                  /\ faults' = faults
                  /\ objects' = objects
             ELSE IF objects[key].rv # f.obj.rv
             THEN /\ ap' = [ap EXCEPT ![w] =
                             IF OnConflict(f.obj.kind, f.i) = "retry"
                             THEN [f EXCEPT !.pc = "get", !.i = f.i + 1]
                             ELSE Returned(f, OnConflict(f.obj.kind, f.i))]
                  /\ calls' = [calls EXCEPT ![w] = Logged(w, "update", "conflict")]
                  /\ faults' = faults
                  /\ objects' = objects
             ELSE /\ ap' = [ap EXCEPT ![w] = Succeeded(f)]
                  /\ calls' = [calls EXCEPT ![w] = Logged(w, "update", "")]
                  /\ faults' = faults
                  /\ objects' = [objects EXCEPT ![key] = [f.obj EXCEPT !.rv = f.obj.rv + 1]]
    /\ UNCHANGED <<mIn, mOut, namespaces, configs, mgr, nsr, cfr, healthy, extWrites>>

\* applyRole's Get after a successful createOrUpdateRole, for the operation
\* label of the metric
Probe(w) ==
    /\ ap[w].pc = "probe"
    /\ ap' = [ap EXCEPT ![w] = [@ EXCEPT !.pc = "next"]]
    /\ calls' = [calls EXCEPT ![w] =
                   Logged(w, "probe", IF KeyOf(ap[w].obj) \in DOMAIN objects
                                      THEN "update" ELSE "create")]
    /\ UNCHANGED <<mIn, mOut, objects, namespaces, configs, mgr, nsr, cfr,
                   healthy, faults, extWrites>>


\* ------------------------------------------------------------------------
\* Other clients of the store

ExtSubject ==
    [kind |-> "User", apiGroup |-> "rbac.authorization.k8s.io", name |-> <<"ext">>,
     namespace |-> <<>>]

\* another client rewrites an object between a worker's fetch of it and the
\* worker's update: the version token moves and the payload grows
ExternalWrite(key) ==
    /\ extWrites < MaxExtWrites
    /\ key \in DOMAIN objects
    /\ \E w \in Workers : ap[w].pc = "update" /\ KeyOf(ap[w].obj) = key
    /\ objects' = [objects EXCEPT ![key] =
                     [@ EXCEPT !.rv = @ + 1,
                               !.rules = IF IsBinding(key.kind) \/ "ext.rule" \in Range(@)
                                         THEN @ ELSE Append(@, "ext.rule"),
                               !.subjects = IF ~IsBinding(key.kind) \/ ExtSubject \in Range(@)
                                            THEN @ ELSE Append(@, ExtSubject)]]
    /\ extWrites' = extWrites + 1
    /\ UNCHANGED <<mIn, mOut, namespaces, configs, ap, calls, mgr, nsr, cfr, healthy,
                   faults>>

\* ------------------------------------------------------------------------
\* rbac.Manager: cleanup

\* CleanupRBACForNamespace walks the ClusterRole and ClusterRoleBinding
\* templates; cleanupClusterRoleIfOrphaned and
\* cleanupClusterRoleBindingIfOrphaned return nil without a store call, so
\* the store it leaves is the store it found
CleanupDisabled(config) ==
    \/ config.deleteOrphanedClusterResources = NilPtr
    \/ ~config.deleteOrphanedClusterResources.v

cleanupClusterRoleIfOrphaned_Deletes(store, nameTemplate, namespaceName, config) ==
    IF CleanupDisabled(config) THEN [err |-> "", store |-> store]
    ELSE LET name == [i \in DOMAIN nameTemplate |-> nameTemplate[i].v]
             gone == {[kind |-> "ClusterRole", namespace |-> "", name |-> name]}
         IN  [err |-> "", store |-> [k \in DOMAIN store \ gone |-> store[k]]]

cleanupClusterRoleIfOrphaned(store, nameTemplate, namespaceName, config) ==
    IF CleanupDisabled(config) THEN [err |-> "", store |-> store]
    ELSE [err |-> "", store |-> store]

cleanupClusterRoleBindingIfOrphaned(store, nameTemplate, namespaceName, config) ==
    IF CleanupDisabled(config) THEN [err |-> "", store |-> store]
    ELSE [err |-> "", store |-> store]

RECURSIVE CleanupTemplates(_, _, _, _, _)
CleanupTemplates(store, kind, i, namespaceName, config) ==
    IF i > Len(TemplatesOf(config, kind))
    THEN [err |-> "", store |-> store]
    ELSE LET t == TemplatesOf(config, kind)[i]
             r == IF kind = "ClusterRole"
                  THEN cleanupClusterRoleIfOrphaned(store, t.name, namespaceName, config)
                  ELSE cleanupClusterRoleBindingIfOrphaned(store, t.name, namespaceName,
                                                           config)
         IN  IF r.err # "" THEN r
             ELSE CleanupTemplates(r.store, kind, i + 1, namespaceName, config)

CleanupRBACForNamespace(store, namespaceName, config) ==
    LET cr == CleanupTemplates(store, "ClusterRole", 1, namespaceName, config)
    IN  IF cr.err # "" THEN cr
        ELSE CleanupTemplates(cr.store, "ClusterRoleBinding", 1, namespaceName, config)

\* ------------------------------------------------------------------------
\* The lists the store returns, in name order

NamespaceNames == <<"dev-a", "prod-a">>

ConfigNames == <<"c0", "c1", "c2">>

InStore(names, store) == SelectSeq(names, LAMBDA n : n \in DOMAIN store)

ListOf(names, store) ==
    [i \in DOMAIN InStore(names, store) |-> store[InStore(names, store)[i]]]

\* ------------------------------------------------------------------------
\* NamespaceReconciler. nsr holds the pass in hand: the request, the
\* namespace fetched, the declarations listed, the loop index k, what the
\* pass did per declaration (trace), and the result of the last pass (res).

NoRes == [done |-> FALSE, err |-> "", requeue |-> FALSE]

Res(err) == [done |-> TRUE, err |-> err, requeue |-> FALSE]

NsrIdle ==
    [pc |-> "idle", n |-> 0, req |-> "", ns |-> NoNs, list |-> <<>>, k |-> 0,
     trace |-> <<>>, res |-> NoRes]

\* a namespace event reaches Reconcile
NsReconcile(name) ==
    /\ nsr.pc = "idle"
    /\ nsr.n < MaxPasses
    /\ nsr' = [NsrIdle EXCEPT !.pc = "get", !.n = nsr.n + 1, !.req = name]
    /\ UNCHANGED <<mIn, mOut, objects, namespaces, configs, ap, calls, mgr, cfr,
                   healthy, faults, extWrites>>

\* r.Get of Reconcile
NsGet ==
    /\ nsr.pc = "get"
    /\ \E fail \in FailChoices :
         IF fail
         THEN /\ healthy' = FALSE
              /\ faults' = faults + 1
              /\ nsr' = [nsr EXCEPT !.pc = "idle", !.res = Res("forbidden")]
         ELSE /\ nsr' = IF nsr.req \in DOMAIN namespaces
                        THEN [nsr EXCEPT !.pc = "list", !.ns = namespaces[nsr.req]]
                        ELSE [nsr EXCEPT !.pc = "listdel"]
              /\ UNCHANGED <<healthy, faults>>
    /\ UNCHANGED <<mIn, mOut, objects, namespaces, configs, ap, calls, mgr, cfr,
                   extWrites>>

CleanupForConfigs_FirstOnly(store, namespaceName, list, i) ==
    IF Len(list) = 0 THEN [store |-> store, trace |-> <<>>]
    ELSE LET r == CleanupRBACForNamespace(store, namespaceName, list[1])
         IN  [store |-> r.store,
              trace |-> <<[config |-> list[1].name, op |-> "cleanup", err |-> r.err]>>]

\* the loop of handleNamespaceDeletion over the listed declarations: it logs
\* a cleanup error and goes on
RECURSIVE CleanupForConfigs(_, _, _, _)
CleanupForConfigs(store, namespaceName, list, i) ==
    IF i > Len(list) THEN [store |-> store, trace |-> <<>>]
    ELSE LET r == CleanupRBACForNamespace(store, namespaceName, list[i])
             rest == CleanupForConfigs(r.store, namespaceName, list, i + 1)
         IN  [store |-> rest.store,
              trace |-> <<[config |-> list[i].name, op |-> "cleanup", err |-> r.err]>>
                        \o rest.trace]

\* r.List of handleNamespaceCreateOrUpdate and of handleNamespaceDeletion;
\* the latter then cleans up for every declaration and returns
NsList ==
    /\ nsr.pc \in {"list", "listdel"}
    /\ \E fail \in FailChoices :
         IF fail
         THEN /\ healthy' = FALSE
              /\ faults' = faults + 1
              /\ nsr' = [nsr EXCEPT !.pc = "idle", !.res = Res("forbidden")]
              /\ UNCHANGED objects
         ELSE LET list == ListOf(ConfigNames, configs)
              IN  IF nsr.pc = "list"
                  THEN /\ nsr' = [nsr EXCEPT !.pc = "loop", !.list = list, !.k = 1]
                       /\ UNCHANGED <<objects, healthy, faults>>
                  ELSE LET r == CleanupForConfigs(objects, nsr.req, list, 1)
                       IN  /\ objects' = r.store
                           /\ healthy' = TRUE
                           /\ nsr' = [nsr EXCEPT !.pc = "idle", !.list = list,
                                                 !.trace = r.trace, !.res = Res("")]
                           /\ UNCHANGED faults
    /\ UNCHANGED <<mIn, mOut, namespaces, configs, ap, calls, mgr, cfr, extWrites>>

\* one round of the loop of handleNamespaceCreateOrUpdate, up to its store
\* call if it makes one; RecordReconcile and return after the last round
NsLoop ==
    /\ nsr.pc = "loop"
    /\ IF nsr.k > Len(nsr.list)
       THEN /\ healthy' = TRUE
            /\ nsr' = [nsr EXCEPT !.pc = "idle", !.res = Res("")]
            /\ UNCHANGED <<objects, ap, calls>>
       ELSE LET config == nsr.list[nsr.k]
                m == NamespaceMatches(nsr.ns, config.selector)
                noted(op, err) ==
                    Append(nsr.trace, [config |-> config.name, op |-> op, err |-> err])
            IN  CASE m.err ->
                       /\ nsr' = [nsr EXCEPT !.k = @ + 1, !.trace = noted("match", "regex")]
                       /\ UNCHANGED <<objects, ap, calls, healthy>>
                  [] ~m.err /\ m.matched ->
                       /\ StartApply("nsr", nsr.ns, config)
                       /\ nsr' = [nsr EXCEPT !.pc = "apply"]
                       /\ UNCHANGED <<objects, healthy>>
                  [] OTHER ->
                       LET r == CleanupRBACForNamespace(objects, nsr.ns.name, config)
                       IN  /\ objects' = r.store
                           /\ nsr' = [nsr EXCEPT !.k = @ + 1,
                                                 !.trace = noted("cleanup", r.err)]
                           /\ UNCHANGED <<ap, calls, healthy>>
    /\ UNCHANGED <<mIn, mOut, namespaces, configs, mgr, cfr, faults, extWrites>>

NsApplied_StopsOnError ==
    /\ nsr.pc = "apply"
    /\ ap["nsr"].pc = "ret"
    /\ LET noted == [nsr EXCEPT !.trace = Append(@, [config |-> nsr.list[nsr.k].name,
                                                     op |-> "apply",
                                                     err |-> ap["nsr"].err])]
       IN  nsr' = IF ap["nsr"].err # ""
                  THEN [noted EXCEPT !.pc = "idle", !.res = Res(ap["nsr"].err)]
                  ELSE [noted EXCEPT !.pc = "loop", !.k = @ + 1]
    /\ ap' = [ap EXCEPT !["nsr"] = [IdleFrame EXCEPT !.scheme = ap["nsr"].scheme]]
    /\ UNCHANGED <<mIn, mOut, objects, namespaces, configs, calls, mgr, cfr,
                   healthy, faults, extWrites>>

\* ApplyRBACForNamespace returned to the loop: an error is logged, the loop
\* goes on
NsApplied ==
    /\ nsr.pc = "apply"
    /\ ap["nsr"].pc = "ret"
    /\ nsr' = [nsr EXCEPT !.pc = "loop", !.k = @ + 1,
                          !.trace = Append(@, [config |-> nsr.list[nsr.k].name,
                                               op |-> "apply", err |-> ap["nsr"].err])]
    /\ ap' = [ap EXCEPT !["nsr"] = [IdleFrame EXCEPT !.scheme = ap["nsr"].scheme]]
    /\ UNCHANGED <<mIn, mOut, objects, namespaces, configs, calls, mgr, cfr,
                   healthy, faults, extWrites>>

\* ------------------------------------------------------------------------
\* NamespaceRBACConfigReconciler. cfr holds the pass in hand: the request,
\* the declaration fetched (config, changed in place as the code does), the
\* namespaces listed, the loop index k, appliedNamespaces, the function's err
\* variable that the deferred RecordReconciliation reads (errVar), what the
\* pass did (trace), the result returned (res) and what the deferred call
\* recorded. The time of a pass is its number.

ConditionTypeReady == "Ready"

ConditionTypeProgressing == "Progressing"

ConditionTypeDegraded == "Degraded"

setCondition_AlwaysAppends(config, conditionType, status, reason, now) ==
    [config EXCEPT !.status.conditions =
        Append(@, [type |-> conditionType, status |-> status, reason |-> reason,
                   lastTransitionTime |-> now])]

setCondition(config, conditionType, status, reason, now) ==
    LET conditions == config.status.conditions
        found == {i \in DOMAIN conditions : conditions[i].type = conditionType}
        condition(ltt) == [type |-> conditionType, status |-> status, reason |-> reason,
                           lastTransitionTime |-> ltt]
    IN  IF found # {}
        THEN LET i == CHOOSE j \in found : \A l \in found : j <= l
             IN  [config EXCEPT !.status.conditions[i] =
                     condition(IF conditions[i].status # status THEN now
                               ELSE conditions[i].lastTransitionTime)]
        ELSE [config EXCEPT !.status.conditions = Append(@, condition(now))]

\* the three setCondition calls of a failed pass, in the code's order
FailureConditions_KeepsProgressing(config, reason, now) ==
    setCondition(
        setCondition(config, ConditionTypeDegraded, "True", reason, now),
        ConditionTypeReady, "False", reason, now)

FailureConditions(config, reason, now) ==
    setCondition(
        setCondition(
            setCondition(config, ConditionTypeDegraded, "True", reason, now),
            ConditionTypeReady, "False", reason, now),
        ConditionTypeProgressing, "False", reason, now)

SuccessConditions_ReadyOnly(config, now) ==
    setCondition(config, ConditionTypeReady, "True", "ReconcileSuccess", now)

\* and of a pass that succeeded
SuccessConditions(config, now) ==
    setCondition(
        setCondition(
            setCondition(config, ConditionTypeReady, "True", "ReconcileSuccess", now),
            ConditionTypeProgressing, "False", "ReconcileSuccess", now),
        ConditionTypeDegraded, "False", "ReconcileSuccess", now)

validateConfig_RegexOnly(config) ==
    IF config.selector.nameRegex # NilPtr
       /\ RegexpMatchString(config.selector.nameRegex.v, "").err
    THEN "invalid nameRegex"
    ELSE ""

\* validateConfig: "" or the error
validateConfig(config) ==
    IF config.selector.nameRegex # NilPtr
       /\ RegexpMatchString(config.selector.nameRegex.v, "").err
    THEN "invalid nameRegex"
    ELSE IF \A kind \in Range(ApplyPhases) : Len(TemplatesOf(config, kind)) = 0
         THEN "at least one RBAC template must be specified"
         ELSE ""

cleanupRBAC_FirstOnly(store, config, i) ==
    IF Len(config.status.appliedNamespaces) = 0 THEN [store |-> store, trace |-> <<>>]
    ELSE LET name == config.status.appliedNamespaces[1]
             r == CleanupRBACForNamespace(store, name, config)
         IN  [store |-> r.store,
              trace |-> <<[op |-> "cleanup", ns |-> name, err |-> r.err]>>]

\* cleanupRBAC: CleanupRBACForNamespace for each of status.appliedNamespaces,
\* going on after an error; it returns nil
RECURSIVE cleanupRBAC(_, _, _)
cleanupRBAC(store, config, i) ==
    IF i > Len(config.status.appliedNamespaces) THEN [store |-> store, trace |-> <<>>]
    ELSE LET name == config.status.appliedNamespaces[i]
             r == CleanupRBACForNamespace(store, name, config)
             rest == cleanupRBAC(r.store, config, i + 1)
         IN  [store |-> rest.store,
              trace |-> <<[op |-> "cleanup", ns |-> name, err |-> r.err]>> \o rest.trace]

CfrIdle ==
    [pc |-> "idle", n |-> 0, req |-> "", config |-> NoCfg, list |-> <<>>, k |-> 0,
     appliedNamespaces |-> <<>>, errVar |-> "", trace |-> <<>>, res |-> NoRes,
     recorded |-> "none"]

CfReturn_NeverRequeue(f, err, requeue) ==
    [f EXCEPT !.pc = "idle",
              !.res = [done |-> TRUE, err |-> err, requeue |-> FALSE],
              !.recorded = IF f.errVar = "" THEN "success" ELSE "error"]

\* Reconcile returns: the deferred RecordReconciliation counts the pass by
\* the function's err variable
CfReturn(f, err, requeue) ==
    [f EXCEPT !.pc = "idle",
              !.res = [done |-> TRUE, err |-> err, requeue |-> requeue],
              !.recorded = IF f.errVar = "" THEN "success" ELSE "error"]

\* a declaration event, or a requeue, reaches Reconcile
CfReconcile(name) ==
    /\ cfr.pc = "idle"
    /\ cfr.n < MaxPasses
    /\ cfr' = [CfrIdle EXCEPT !.pc = "get", !.n = cfr.n + 1, !.req = name]
    /\ UNCHANGED <<mIn, mOut, objects, namespaces, configs, ap, calls, mgr, nsr,
                   healthy, faults, extWrites>>

\* r.Get of Reconcile and what follows it up to the next store call: the
\* teardown path, the finalizer, the Progressing mark and validateConfig
CfGet ==
    /\ cfr.pc = "get"
    /\ \E fail \in FailChoices :
         IF fail
         THEN /\ healthy' = FALSE
              /\ faults' = faults + 1
              /\ cfr' = [cfr EXCEPT !.pc = "idle", !.errVar = "forbidden",
                                    !.res = Res("forbidden"), !.recorded = "error"]
              /\ UNCHANGED objects
         ELSE IF cfr.req \notin DOMAIN configs
         THEN /\ cfr' = [cfr EXCEPT !.pc = "idle", !.errVar = "notfound", !.res = Res("")]
              /\ UNCHANGED <<objects, healthy, faults>>
         ELSE LET config == configs[cfr.req]
                  f == [cfr EXCEPT !.config = config]
              IN  CASE config.deleting /\ config.finalizer ->
                         LET r == cleanupRBAC(objects, config, 1)
                         IN  /\ objects' = r.store
                             /\ cfr' = [f EXCEPT !.pc = "update", !.trace = r.trace,
                                                 !.config.finalizer = FALSE]
                             /\ UNCHANGED <<healthy, faults>>
                    [] config.deleting /\ ~config.finalizer ->
                         /\ cfr' = CfReturn(f, "", FALSE)
                         /\ UNCHANGED <<objects, healthy, faults>>
                    [] ~config.deleting /\ ~config.finalizer ->
                         /\ cfr' = [f EXCEPT !.pc = "update", !.config.finalizer = TRUE]
                         /\ UNCHANGED <<objects, healthy, faults>>
                    [] OTHER ->
                         LET marked == setCondition(config, ConditionTypeProgressing,
                                                    "True", "Reconciling", cfr.n)
                             verr == validateConfig(marked)
                         IN  IF verr # ""
                             THEN /\ healthy' = FALSE
                                  /\ cfr' = [f EXCEPT
                                       !.pc = "status",
                                       !.trace = <<[op |-> "validate", ns |-> "",
                                                    err |-> verr]>>,
                                       !.config = FailureConditions(marked,
                                                     "ValidationError", cfr.n)]
                                  /\ UNCHANGED <<objects, faults>>
                             ELSE /\ cfr' = [f EXCEPT !.pc = "listns", !.config = marked]
                                  /\ UNCHANGED <<objects, healthy, faults>>
    /\ UNCHANGED <<mIn, mOut, namespaces, configs, ap, calls, mgr, nsr, extWrites>>

\* r.Update of the declaration with the finalizer added or removed. The
\* store takes the write when the version is current; it drops a declaration
\* under deletion when its last finalizer is gone
CfUpdate ==
    /\ cfr.pc = "update"
    /\ \E fail \in FailChoices :
         LET adding == cfr.config.finalizer
             stored == cfr.req \in DOMAIN configs
             res == CASE fail -> "forbidden"
                      [] ~fail /\ ~stored -> "notfound"
                      [] ~fail /\ stored /\ configs[cfr.req].rv # cfr.config.rv -> "conflict"
                      [] OTHER -> ""
             noted == [cfr EXCEPT !.trace = Append(@, [op |-> "update", ns |-> "",
                                                       err |-> res])]
         IN  /\ faults' = IF fail THEN faults + 1 ELSE faults
             /\ configs' =
                  IF res # "" THEN configs
                  ELSE IF ~adding /\ configs[cfr.req].deleting
                          /\ ~configs[cfr.req].otherFinalizers
                  THEN [c \in DOMAIN configs \ {cfr.req} |-> configs[c]]
                  ELSE [configs EXCEPT ![cfr.req] =
                           [cfr.config EXCEPT !.rv = @ + 1,
                                              !.deleting = configs[cfr.req].deleting]]
             /\ cfr' = CfReturn(noted, res, adding /\ res = "")
    /\ UNCHANGED <<mIn, mOut, objects, namespaces, ap, calls, mgr, nsr, healthy,
                   extWrites>>

CfFailed_RecordsPartial(f, err) ==
    [f EXCEPT !.pc = "status", !.errVar = err,
              !.config = FailureConditions(
                            [f.config EXCEPT !.status.appliedNamespaces =
                                                 f.appliedNamespaces],
                            "ReconcileError", f.n)]

\* the pass failed in reconcileRBAC with err
CfFailed(f, err) ==
    [f EXCEPT !.pc = "status", !.errVar = err,
              !.config = FailureConditions(f.config, "ReconcileError", f.n)]

\* r.List of reconcileRBAC
CfListNamespaces ==
    /\ cfr.pc = "listns"
    /\ \E fail \in FailChoices :
         IF fail
         THEN /\ faults' = faults + 1
              /\ healthy' = FALSE
              /\ cfr' = CfFailed(cfr, "forbidden")
         ELSE /\ cfr' = [cfr EXCEPT !.pc = "loop", !.k = 1,
                                    !.list = ListOf(NamespaceNames, namespaces)]
              /\ UNCHANGED <<healthy, faults>>
    /\ UNCHANGED <<mIn, mOut, objects, namespaces, configs, ap, calls, mgr, nsr,
                   extWrites>>

RecordApplied_KeepsEarlier(config, appliedNamespaces) ==
    [config EXCEPT
       !.status.appliedNamespaces =
           SelectSeq(@, LAMBDA n : n \notin Range(appliedNamespaces)) \o appliedNamespaces,
       !.status.observedGeneration = config.generation]

\* Reconcile after reconcileRBAC returned the namespaces applied
RecordApplied(config, appliedNamespaces) ==
    [config EXCEPT !.status.appliedNamespaces = appliedNamespaces,
                   !.status.observedGeneration = config.generation]

\* one round of the loop of reconcileRBAC up to its ApplyRBACForNamespace
\* call; after the last round, Reconcile fills the status of a good pass
CfLoop ==
    /\ cfr.pc = "loop"
    /\ IF cfr.k > Len(cfr.list)
       THEN /\ healthy' = TRUE
            /\ cfr' = [cfr EXCEPT
                 !.pc = "status",
                 !.config = SuccessConditions(
                     RecordApplied(cfr.config, cfr.appliedNamespaces), cfr.n)]
            /\ UNCHANGED <<ap, calls>>
       ELSE LET ns == cfr.list[cfr.k]
                m == NamespaceMatches(ns, cfr.config.selector)
            IN  CASE m.err ->
                       /\ cfr' = [cfr EXCEPT !.k = @ + 1,
                                             !.trace = Append(@, [op |-> "match",
                                                                  ns |-> ns.name,
                                                                  err |-> "regex"])]
                       /\ UNCHANGED <<ap, calls, healthy>>
                  [] ~m.err /\ m.matched ->
                       /\ StartApply("cfr", ns, cfr.config)
                       /\ cfr' = [cfr EXCEPT !.pc = "apply"]
                       /\ UNCHANGED healthy
                  [] OTHER ->
                       /\ cfr' = [cfr EXCEPT !.k = @ + 1]
                       /\ UNCHANGED <<ap, calls, healthy>>
    /\ UNCHANGED <<mIn, mOut, objects, namespaces, configs, mgr, nsr, faults,
                   extWrites>>

\* ApplyRBACForNamespace returned to reconcileRBAC: an error ends the loop
CfApplied ==
    /\ cfr.pc = "apply"
    /\ ap["cfr"].pc = "ret"
    /\ LET err == ap["cfr"].err
           noted == [cfr EXCEPT !.trace = Append(@, [op |-> "apply",
                                                     ns |-> cfr.list[cfr.k].name,
                                                     err |-> err])]
       IN  IF err # ""
           THEN /\ healthy' = FALSE
                /\ cfr' = CfFailed(noted, err)
           ELSE /\ cfr' = [noted EXCEPT !.pc = "loop", !.k = @ + 1,
                                        !.appliedNamespaces = Append(@, cfr.list[cfr.k].name)]
                /\ UNCHANGED healthy
    /\ ap' = [ap EXCEPT !["cfr"] = [IdleFrame EXCEPT !.scheme = ap["cfr"].scheme]]
    /\ UNCHANGED <<mIn, mOut, objects, namespaces, configs, calls, mgr, nsr,
                   faults, extWrites>>

\* what updateStatus returns for the result res of r.Status().Update
updateStatus(res) == IF res = "notfound" THEN "" ELSE res

\* r.Status().Update of updateStatus: the store takes the status of a
\* current version
CfUpdateStatus ==
    /\ cfr.pc = "status"
    /\ \E fail \in FailChoices :
         LET stored == cfr.req \in DOMAIN configs
             res == CASE fail -> "forbidden"
                      [] ~fail /\ ~stored -> "notfound"
                      [] ~fail /\ stored /\ configs[cfr.req].rv # cfr.config.rv -> "conflict"
                      [] OTHER -> ""
             noted == [cfr EXCEPT !.trace = Append(@, [op |-> "status", ns |-> "",
                                                       err |-> res])]
         IN  /\ faults' = IF fail THEN faults + 1 ELSE faults
             /\ configs' = IF res # "" THEN configs
                           ELSE [configs EXCEPT ![cfr.req].status = cfr.config.status,
                                                ![cfr.req].rv = @ + 1]
             /\ cfr' = CfReturn(noted, updateStatus(res), FALSE)
    /\ UNCHANGED <<mIn, mOut, objects, namespaces, ap, calls, mgr, nsr, healthy,
                   extWrites>>

\* a user deletes a declaration: the store marks it when it holds a
\* finalizer, and drops it otherwise
DeleteConfig(name) ==
    /\ name \in DOMAIN configs
    /\ ~configs[name].deleting
    /\ configs' = IF configs[name].finalizer \/ configs[name].otherFinalizers
                  THEN [configs EXCEPT ![name].deleting = TRUE, ![name].rv = @ + 1]
                  ELSE [c \in DOMAIN configs \ {name} |-> configs[c]]
    /\ UNCHANGED <<mIn, mOut, objects, namespaces, ap, calls, mgr, nsr, cfr,
                   healthy, faults, extWrites>>

\* a user gives a declaration another selector: the store counts a new
\* generation
EditSelector(name, selector) ==
    /\ name \in DOMAIN configs
    /\ ~configs[name].deleting
    /\ configs[name].generation < MaxGeneration
    /\ selector # configs[name].selector
    /\ configs' = [configs EXCEPT ![name].selector = selector,
                                  ![name].generation = @ + 1,
                                  ![name].rv = @ + 1]
    /\ UNCHANGED <<mIn, mOut, objects, namespaces, ap, calls, mgr, nsr, cfr,
                   healthy, faults, extWrites>>

\* ------------------------------------------------------------------------
\* Users of the cluster

TeamLabels == GoMap({"team"}, [team |-> "a"])

\* a user sets or removes the team label of a namespace
RelabelNamespace(name) ==
    /\ name \in DOMAIN namespaces
    /\ namespaces' = [namespaces EXCEPT ![name].labels =
                         IF @ = TeamLabels THEN NilMap ELSE TeamLabels]
    /\ UNCHANGED <<mIn, mOut, objects, configs, ap, calls, mgr, nsr, cfr,
                   healthy, faults, extWrites>>

\* a user deletes a namespace while no pass runs: the cluster removes the
\* objects in it
DeleteNamespace(name) ==
    /\ name \in DOMAIN namespaces
    /\ \A w \in Workers : ap[w].pc = "idle"
    /\ nsr.pc = "idle" /\ cfr.pc = "idle"
    /\ namespaces' = [n \in DOMAIN namespaces \ {name} |-> namespaces[n]]
    /\ objects' = [key \in {k \in DOMAIN objects : k.namespace # name} |-> objects[key]]
    /\ UNCHANGED <<mIn, mOut, configs, ap, calls, mgr, nsr, cfr,
                   healthy, faults, extWrites>>

\* ------------------------------------------------------------------------
\* The declarations, namespaces and stored objects of the model

Group(name) ==
    [kind |-> "Group", apiGroup |-> "rbac.authorization.k8s.io", name |-> name,
     namespace |-> <<>>]

RoleT(name, rules) ==
    [name |-> name, rules |-> rules, roleRefName |-> <<>>, subjects |-> <<>>,
     labels |-> NilMap, annotations |-> NilMap]

BindingT(name, roleRefName, subjects) ==
    [name |-> name, rules |-> <<>>, roleRefName |-> roleRefName, subjects |-> subjects,
     labels |-> NilMap, annotations |-> NilMap]

\* template labels that use the operator's keys
ReaderLabels ==
    GoMap({OwnerLabel, NamespaceLabel, "env"},
          [k \in {OwnerLabel, NamespaceLabel, "env"} |->
             CASE k = OwnerLabel -> <<Lit("someone-else")>>
               [] k = NamespaceLabel -> <<Lit("elsewhere")>>
               [] OTHER -> <<Lit("env-"), NsNameRef>>])

BindLabels == GoMap({ConfigLabel}, [k \in {ConfigLabel} |-> <<Lit("other-config")>>])

\* two Roles (the second named after the namespace's team label), and one
\* template of each other kind
FullTemplates ==
    [roles |-> <<[RoleT(<<Lit("reader-"), NsNameRef>>, <<"pods.get">>)
                    EXCEPT !.labels = ReaderLabels],
                 RoleT(<<Lit("team-"), LabelRef("team")>>, <<"deployments.create">>)>>,
     clusterRoles |-> <<RoleT(<<Lit("cluster-reader")>>, <<"nodes.get">>)>>,
     roleBindings |-> <<[BindingT(<<Lit("bind-"), NsNameRef>>, <<Lit("reader-"), NsNameRef>>,
                                  <<Group(<<Lit("admins")>>),
                                    Group(<<Lit("developers")>>)>>)
                           EXCEPT !.labels = BindLabels]>>,
     clusterRoleBindings |->
        <<BindingT(<<Lit("cluster-bind")>>, <<Lit("cluster-reader")>>,
                   <<[kind |-> "ServiceAccount", apiGroup |-> "", name |-> <<Lit("sa-"), NsNameRef>>,
                      namespace |-> <<NsNameRef>>]>>)>>]

AnySelector ==
    [nameRegex |-> NilPtr, annotations |-> NilMap, labels |-> NilMap,
     includeNamespaces |-> <<>>, excludeNamespaces |-> <<>>]

NoStatus == [conditions |-> <<>>, appliedNamespaces |-> <<>>, observedGeneration |-> 0]

\* a declaration as a user created it, before or after the pass that adds
\* the finalizer; otherFinalizers says that another controller's finalizer
\* is on it
Config(name, selector, templates, strategy, finalizer) ==
    [name |-> name, selector |-> selector, templates |-> templates,
     mergeStrategy |-> strategy, deleteOrphanedClusterResources |-> NilPtr,
     finalizer |-> finalizer, otherFinalizers |-> FALSE,
     deleting |-> FALSE, generation |-> 1, status |-> NoStatus, rv |-> 1]

StrategyPtrs == {NilPtr, Ptr("merge"), Ptr("replace"), Ptr("ignore")}

DevA == [name |-> "dev-a", labels |-> GoMap({"team"}, [team |-> "a"]), annotations |-> NilMap]

ProdA == [name |-> "prod-a", labels |-> NilMap, annotations |-> NilMap]

Stored(kind, namespace, name, rules, subjects) ==
    [kind |-> kind, name |-> name, namespace |-> namespace,
     labels |-> [k \in {} |-> <<>>], annotations |-> NilMap, rules |-> rules,
     roleRef |-> <<>>, subjects |-> subjects, owner |-> "", rv |-> 1]

StoreOf(objs) == [k \in {KeyOf(o) : o \in objs} |-> CHOOSE o \in objs : KeyOf(o) = k]

\* objects that users made before the operator ran, under the names the
\* templates generate
OldObjects ==
    {Stored("Role", "dev-a", <<"reader-", "dev-a">>, <<"old.rule">>, <<>>),
     Stored("ClusterRole", "", <<"cluster-reader">>, <<"old.rule">>, <<>>),
     Stored("RoleBinding", "dev-a", <<"bind-", "dev-a">>, <<>>, <<Group(<<"developers">>)>>),
     Stored("ClusterRoleBinding", "", <<"cluster-bind">>, <<>>, <<Group(<<"auditors">>)>>)}

InitStores == {StoreOf({}), StoreOf(OldObjects)}

\* ------------------------------------------------------------------------
\* Initial values shared by the specifications

MatchUnused == mIn = <<>> /\ mOut = NoResult

WorkersIdle ==
    /\ ap = [w \in Workers |-> IdleFrame]
    /\ calls = [w \in Workers |-> <<>>]

NoCall == [ns |-> "", err |-> "", after |-> <<>>]

MgrIdle == mgr = [n |-> 0, ns |-> "", ext |-> 0, flt |-> 0, last |-> NoCall]

ReconcilersIdle == nsr = NsrIdle /\ cfr = CfrIdle

\* NewChecker starts healthy
NoInterference == faults = 0 /\ extWrites = 0 /\ healthy = TRUE

\* ------------------------------------------------------------------------
\* SpecMatch: NamespaceMatches on every namespace and selector of the bounds

InitMatch ==
    /\ mIn \in [ns : MatchNamespaces, selector : MatchSelectors]
    /\ mOut = NoResult
    /\ objects = StoreOf({}) /\ namespaces = <<>> /\ configs = <<>>
    /\ WorkersIdle /\ MgrIdle /\ ReconcilersIdle /\ NoInterference

Match ==
    /\ ~mOut.called
    /\ mOut' = NamespaceMatches(mIn.ns, mIn.selector)
    /\ UNCHANGED <<mIn, objects, namespaces, configs, ap, calls, mgr, nsr, cfr,
                   healthy, faults, extWrites>>

NextMatch == Match

SpecMatch == InitMatch /\ [][NextMatch]_vars

\* ------------------------------------------------------------------------
\* SpecMerge: mergeRules and mergeSubjects on every pair of lists of the
\* bounds. A user or group may hold a "/" in its name and any string as its
\* namespace.

MaxMergeLen == 2

MergeRuleSet == {"pods.get", "deployments.create", "old.rule"}

User(name, namespace) ==
    [kind |-> "User", apiGroup |-> "rbac.authorization.k8s.io", name |-> name,
     namespace |-> namespace]

MergeSubjectSet ==
    {Group(<<"developers">>), Group(<<"admins">>),
     User(<<"x", "/", "y">>, <<>>), User(<<"x">>, <<"y", "/">>)}

InitMerge ==
    /\ \/ mIn \in [fn : {"mergeRules"}, existing : SeqsUpTo(MergeRuleSet, MaxMergeLen),
                    new : SeqsUpTo(MergeRuleSet, MaxMergeLen)]
       \/ mIn \in [fn : {"mergeSubjects"},
                    existing : SeqsUpTo(MergeSubjectSet, MaxMergeLen),
                    new : SeqsUpTo(MergeSubjectSet, MaxMergeLen)]
    /\ mOut = NoResult
    /\ objects = StoreOf({}) /\ namespaces = <<>> /\ configs = <<>>
    /\ WorkersIdle /\ MgrIdle /\ ReconcilersIdle /\ NoInterference

MergeRulesCall ==
    /\ ~mOut.called /\ mIn.fn = "mergeRules"
    /\ mOut' = [called |-> TRUE, result |-> mergeRules(mIn.existing, mIn.new)]
    /\ UNCHANGED <<mIn, objects, namespaces, configs, ap, calls, mgr, nsr, cfr,
                   healthy, faults, extWrites>>

MergeSubjectsCall ==
    /\ ~mOut.called /\ mIn.fn = "mergeSubjects"
    /\ \E result \in mergeSubjects(mIn.existing, mIn.new) :
         mOut' = [called |-> TRUE, result |-> result]
    /\ UNCHANGED <<mIn, objects, namespaces, configs, ap, calls, mgr, nsr, cfr,
                   healthy, faults, extWrites>>

NextMerge == MergeRulesCall \/ MergeSubjectsCall

SpecMerge == InitMerge /\ [][NextMerge]_vars

\* ------------------------------------------------------------------------
\* SpecEngine: ProcessTemplate on every template and context of the bounds,
\* as the tests call it, on a context whose maps may be nil, and the
\* built-ins on every map, key and value of the bounds

EngineMaps(k) == {NilMap} \cup {GoMap(S, f) : S \in SUBSET {k}, f \in [{k} -> {"a", ""}]}

EngineContexts ==
    [nsName : {"dev-a"}, labels : EngineMaps("team"), annotations : EngineMaps("env"),
     customVars : EngineMaps("owner"), crdName : {"c1"}]

EngineParts ==
    {Lit("x"), NsNameRef, LabelRef("team"), AnnotationRef("env"), CustomVarRef("owner"),
     FieldRef("Owner"), GetOrDefaultCall("labels", "team", "none"),
     HasKeyCall("annotations", "env"), DefaultCall("none", "customVars", "owner")}

EngineTemplates == SeqsUpTo(EngineParts, MaxTemplateLen) \ {<<>>}

EngineValues == {NilPtr, Ptr(""), Ptr("a")}

InitEngine ==
    /\ \/ mIn \in [fn : {"ProcessTemplate"}, templateStr : EngineTemplates,
                    ctx : EngineContexts]
       \/ mIn \in [fn : {"getOrDefault", "hasKey"}, m : EngineMaps("team"),
                    key : {"team", "env"}, defaultVal : {"none", ""}]
       \/ mIn \in [fn : {"default"}, defaultVal : {Ptr("none"), Ptr("")},
                    val : EngineValues]
    /\ mOut = NoResult
    /\ objects = StoreOf({}) /\ namespaces = <<>> /\ configs = <<>>
    /\ WorkersIdle /\ MgrIdle /\ ReconcilersIdle /\ NoInterference

ProcessTemplateCall ==
    /\ ~mOut.called /\ mIn.fn = "ProcessTemplate"
    /\ LET r == ProcessTemplate(mIn.templateStr, mIn.ctx)
       IN  mOut' = [called |-> TRUE, err |-> r.err, val |-> r.val]
    /\ UNCHANGED <<mIn, objects, namespaces, configs, ap, calls, mgr, nsr, cfr,
                   healthy, faults, extWrites>>

GetOrDefaultBuiltin ==
    /\ ~mOut.called /\ mIn.fn = "getOrDefault"
    /\ mOut' = [called |-> TRUE, val |-> getOrDefault(mIn.m, mIn.key, mIn.defaultVal)]
    /\ UNCHANGED <<mIn, objects, namespaces, configs, ap, calls, mgr, nsr, cfr,
                   healthy, faults, extWrites>>

HasKeyBuiltin ==
    /\ ~mOut.called /\ mIn.fn = "hasKey"
    /\ mOut' = [called |-> TRUE, val |-> hasKey(mIn.m, mIn.key)]
    /\ UNCHANGED <<mIn, objects, namespaces, configs, ap, calls, mgr, nsr, cfr,
                   healthy, faults, extWrites>>

DefaultBuiltin ==
    /\ ~mOut.called /\ mIn.fn = "default"
    /\ mOut' = [called |-> TRUE, val |-> default(mIn.defaultVal, mIn.val)]
    /\ UNCHANGED <<mIn, objects, namespaces, configs, ap, calls, mgr, nsr, cfr,
                   healthy, faults, extWrites>>

NextEngine == ProcessTemplateCall \/ GetOrDefaultBuiltin \/ HasKeyBuiltin \/ DefaultBuiltin

SpecEngine == InitEngine /\ [][NextEngine]_vars

\* ------------------------------------------------------------------------
\* SpecHealth: the health.Checker under every order of its operations, with
\* a clock. Time is counted in ticks, TicksPerSecond to the second; the
\* Checker keeps lastReconcile in whole seconds. healthy is the Checker's
\* healthy field; mIn holds its ready and lastReconcile fields, the clock,
\* the last operation that wrote a field, and the time of the last
\* RecordReconcile (-1 when there was none); mOut is what the last probe
\* returned and what it could see.

Minute == 60 * TicksPerSecond

\* time.Now().Unix()
Unix(now) == now \div TicksPerSecond

\* time.Since(time.Unix(lastReconcile, 0))
Since(lastReconcile, now) == now - lastReconcile * TicksPerSecond

IsReady(c) == c.ready

IsHealthy_FlagOnly(flag, c) == flag

IsHealthy(flag, c) ==
    IF ~flag THEN FALSE
    ELSE IF Since(c.lastReconcile, c.now) > 5 * Minute THEN FALSE
    ELSE TRUE

\* the clock steps of the model: a tick, and spans about the 5 minutes
Advances == {1, 4 * Minute, 5 * Minute}

\* NewChecker at any tick of its first second
InitHealth ==
    /\ healthy = TRUE
    /\ \E now \in 0 .. TicksPerSecond - 1 :
         mIn = [ready |-> FALSE, lastReconcile |-> Unix(now), now |-> now,
                reconciled |-> -1, advances |-> 0, op |-> "NewChecker"]
    /\ mOut = NoResult
    /\ objects = StoreOf({}) /\ namespaces = <<>> /\ configs = <<>>
    /\ WorkersIdle /\ MgrIdle /\ ReconcilersIdle /\ faults = 0 /\ extWrites = 0

Advance(d) ==
    /\ mIn.advances < MaxAdvances
    /\ mIn' = [mIn EXCEPT !.now = @ + d, !.advances = @ + 1]
    /\ UNCHANGED <<mOut, objects, namespaces, configs, ap, calls, mgr, nsr, cfr,
                   healthy, faults, extWrites>>

SetReady(ready) ==
    /\ mIn' = [mIn EXCEPT !.ready = ready, !.op = "SetReady"]
    /\ UNCHANGED <<mOut, objects, namespaces, configs, ap, calls, mgr, nsr, cfr,
                   healthy, faults, extWrites>>

SetHealthy(h) ==
    /\ healthy' = h
    /\ mIn' = [mIn EXCEPT !.lastReconcile = IF h THEN Unix(mIn.now) ELSE @,
                          !.op = IF h THEN "SetHealthy(true)" ELSE "SetHealthy(false)"]
    /\ UNCHANGED <<mOut, objects, namespaces, configs, ap, calls, mgr, nsr, cfr,
                   faults, extWrites>>

RecordReconcile ==
    /\ healthy' = TRUE
    /\ mIn' = [mIn EXCEPT !.lastReconcile = Unix(mIn.now), !.reconciled = mIn.now,
                          !.op = "RecordReconcile"]
    /\ UNCHANGED <<mOut, objects, namespaces, configs, ap, calls, mgr, nsr, cfr,
                   faults, extWrites>>

\* what a probe can see when it runs
Seen(fn, err) ==
    [called |-> TRUE, fn |-> fn, err |-> err, isHealthy |-> IsHealthy(healthy, mIn),
     isReady |-> IsReady(mIn), flag |-> healthy, now |-> mIn.now,
     lastReconcile |-> mIn.lastReconcile, reconciled |-> mIn.reconciled]

LivenessCheck ==
    /\ mOut' = Seen("LivenessCheck", ~IsHealthy(healthy, mIn))
    /\ UNCHANGED <<mIn, objects, namespaces, configs, ap, calls, mgr, nsr, cfr,
                   healthy, faults, extWrites>>

ReadinessCheck ==
    /\ mOut' = Seen("ReadinessCheck", ~IsReady(mIn) \/ ~IsHealthy(healthy, mIn))
    /\ UNCHANGED <<mIn, objects, namespaces, configs, ap, calls, mgr, nsr, cfr,
                   healthy, faults, extWrites>>

NextHealth ==
    \/ \E d \in Advances : Advance(d)
    \/ \E ready \in BOOLEAN : SetReady(ready)
    \/ \E h \in BOOLEAN : SetHealthy(h)
    \/ RecordReconcile
    \/ LivenessCheck
    \/ ReadinessCheck

SpecHealth == InitHealth /\ [][NextHealth]_vars

\* ------------------------------------------------------------------------
\* SpecMgr: a client calls ApplyRBACForNamespace directly for one namespace,
\* again after each call that returned nil, MaxApplies times at most

InitMgr ==
    /\ MatchUnused
    /\ objects \in InitStores
    /\ namespaces = [n \in {"dev-a", "prod-a"} |-> IF n = "dev-a" THEN DevA ELSE ProdA]
    /\ \E strategy \in StrategyPtrs :
         configs = [c \in {"c1"} |-> Config("c1", AnySelector, FullTemplates, strategy, TRUE)]
    /\ WorkersIdle /\ MgrIdle /\ ReconcilersIdle /\ NoInterference

CallApply(n, c) ==
    /\ ap["mgr"].pc = "idle"
    /\ mgr.n < MaxApplies
    /\ mgr.last.err = ""
    /\ mgr.n = 0 \/ n = mgr.ns
    /\ n \in DOMAIN namespaces /\ c \in DOMAIN configs
    /\ StartApply("mgr", namespaces[n], configs[c])
    /\ mgr' = [mgr EXCEPT !.n = @ + 1, !.ns = n, !.ext = extWrites, !.flt = faults]
    /\ UNCHANGED <<mIn, mOut, objects, namespaces, configs, nsr, cfr, healthy, faults,
                   extWrites>>

\* the call returns: the client notes its namespace, the error, and the
\* store it left
ApplyReturn ==
    /\ ap["mgr"].pc = "ret"
    /\ mgr' = [mgr EXCEPT !.last = [ns |-> mgr.ns, err |-> ap["mgr"].err, after |-> objects]]
    /\ ap' = [ap EXCEPT !["mgr"] = [IdleFrame EXCEPT !.scheme = ap["mgr"].scheme]]
    /\ UNCHANGED <<mIn, mOut, objects, namespaces, configs, calls, nsr, cfr,
                   healthy, faults, extWrites>>

NextMgr ==
    \/ \E n \in {"dev-a", "prod-a"} : CallApply(n, "c1")
    \/ ApplyTemplate("mgr")
    \/ Get("mgr")
    \/ Create("mgr")
    \/ Update("mgr")
    \/ Probe("mgr")
    \/ ApplyReturn
    \/ \E key \in DOMAIN objects : ExternalWrite(key)

SpecMgr == InitMgr /\ [][NextMgr]_vars

\* ------------------------------------------------------------------------
\* SpecRace: SpecMgr with another writer that also takes entries away: it
\* removes the first rule of a Role or ClusterRole, or the first subject of
\* a binding, between a fetch of the manager and its update

ExternalRemove(key) ==
    /\ extWrites < MaxExtWrites
    /\ key \in DOMAIN objects
    /\ \E w \in Workers : ap[w].pc = "update" /\ KeyOf(ap[w].obj) = key
    /\ IF IsBinding(key.kind) THEN objects[key].subjects # <<>>
       ELSE objects[key].rules # <<>>
    /\ objects' = [objects EXCEPT ![key] =
                     [@ EXCEPT !.rv = @ + 1,
                               !.rules = IF IsBinding(key.kind) THEN @ ELSE Tail(@),
                               !.subjects = IF IsBinding(key.kind) THEN Tail(@) ELSE @]]
    /\ extWrites' = extWrites + 1
    /\ UNCHANGED <<mIn, mOut, namespaces, configs, ap, calls, mgr, nsr, cfr, healthy,
                   faults>>

NextRace ==
    \/ NextMgr
    \/ \E key \in DOMAIN objects : ExternalRemove(key)

SpecRace == InitMgr /\ [][NextRace]_vars

\* ------------------------------------------------------------------------
\* SpecNs: namespace events reach the NamespaceReconciler, MaxPasses passes
\* at most, while users relabel and delete namespaces. c0's regex does not
\* compile, c1 selects the namespaces of team a, c2 selects every namespace
\* and names its Role after the team label.

RegexSelector(pattern) == [AnySelector EXCEPT !.nameRegex = Ptr(pattern)]

TeamSelector == [AnySelector EXCEPT !.labels = TeamLabels]

NoTemplates ==
    [roles |-> <<>>, clusterRoles |-> <<>>, roleBindings |-> <<>>,
     clusterRoleBindings |-> <<>>]

ReaderTemplates ==
    [NoTemplates EXCEPT
       !.roles = <<RoleT(<<Lit("reader-"), NsNameRef>>, <<"pods.get">>)>>,
       !.clusterRoles = <<RoleT(<<Lit("cluster-reader")>>, <<"nodes.get">>)>>,
       !.roleBindings = <<BindingT(<<Lit("bind-"), NsNameRef>>, <<Lit("reader-"), NsNameRef>>,
                                   <<Group(<<Lit("admins")>>)>>)>>]

TeamTemplates ==
    [NoTemplates EXCEPT
       !.roles = <<RoleT(<<Lit("team-"), LabelRef("team")>>, <<"deployments.create">>)>>]

NsConfigs ==
    [c \in {"c0", "c1", "c2"} |->
       CASE c = "c0" -> Config("c0", RegexSelector("["), TeamTemplates, NilPtr, TRUE)
         [] c = "c1" -> Config("c1", TeamSelector, ReaderTemplates, NilPtr, TRUE)
         [] c = "c2" -> Config("c2", AnySelector, TeamTemplates, Ptr("replace"), TRUE)]

InitNs ==
    /\ MatchUnused
    /\ objects = StoreOf({})
    /\ namespaces = [n \in {"dev-a", "prod-a"} |-> IF n = "dev-a" THEN DevA ELSE ProdA]
    /\ configs = NsConfigs
    /\ WorkersIdle /\ MgrIdle /\ ReconcilersIdle /\ NoInterference

NextNs ==
    \/ \E name \in {"dev-a", "prod-a"} : NsReconcile(name)
    \/ NsGet
    \/ NsList
    \/ NsLoop
    \/ NsApplied
    \/ ApplyTemplate("nsr")
    \/ Get("nsr")
    \/ Create("nsr")
    \/ Update("nsr")
    \/ Probe("nsr")
    \/ \E name \in {"dev-a", "prod-a"} : RelabelNamespace(name)
    \/ \E name \in {"dev-a", "prod-a"} : DeleteNamespace(name)

SpecNs == InitNs /\ [][NextNs]_vars

\* ------------------------------------------------------------------------
\* SpecCfg: events of one declaration reach the
\* NamespaceRBACConfigReconciler, MaxPasses passes at most; a user may delete
\* the declaration. The declaration is valid, or its regex does not compile,
\* or it has no template; its Role is named after the namespace or after
\* the team label, which prod-a lacks.

CfgSelectors == {AnySelector, RegexSelector("^dev-.*"), RegexSelector("[")}

CfgTemplates ==
    {NoTemplates,
     [NoTemplates EXCEPT
        !.roles = <<RoleT(<<Lit("reader-"), NsNameRef>>, <<"pods.get">>)>>],
     TeamTemplates}

InitCfg ==
    /\ MatchUnused
    /\ objects = StoreOf({})
    /\ namespaces = [n \in {"dev-a", "prod-a"} |-> IF n = "dev-a" THEN DevA ELSE ProdA]
    /\ \E selector \in CfgSelectors, templates \in CfgTemplates,
          finalizer \in BOOLEAN, others \in BOOLEAN :
         configs = [c \in {"c1"} |->
                      [Config("c1", selector, templates, NilPtr, finalizer)
                          EXCEPT !.otherFinalizers = others]]
    /\ WorkersIdle /\ MgrIdle /\ ReconcilersIdle /\ NoInterference

NextCfg ==
    \/ CfReconcile("c1")
    \/ CfGet
    \/ CfUpdate
    \/ CfListNamespaces
    \/ CfLoop
    \/ CfApplied
    \/ CfUpdateStatus
    \/ ApplyTemplate("cfr")
    \/ Get("cfr")
    \/ Create("cfr")
    \/ Update("cfr")
    \/ Probe("cfr")
    \/ DeleteConfig("c1")
    \/ \E selector \in CfgSelectors : EditSelector("c1", selector)

SpecCfg == InitCfg /\ [][NextCfg]_vars

\* ------------------------------------------------------------------------
\* SpecCleanup: CleanupRBACForNamespace for a namespace that is gone, on a
\* store that is empty, that holds users' objects, or that holds what the
\* declaration generated for dev-a, with every setting of
\* deleteOrphanedClusterResources

CleanupFlags == {NilPtr, Ptr(FALSE), Ptr(TRUE)}

CleanupConfigs ==
    {[Config("c1", AnySelector, templates, NilPtr, TRUE)
         EXCEPT !.deleteOrphanedClusterResources = flag] :
       templates \in {FullTemplates, ReaderTemplates, TeamTemplates},
       flag \in CleanupFlags}

\* what ApplyRBACForNamespace(dev-a, config) leaves in an empty store
GeneratedStore(config) ==
    LET kinds == {k \in Range(ApplyPhases) : Len(TemplatesOf(config, k)) > 0}
        built == {BuildObject(k, DevA, config, TemplatesOf(config, k)[1]) : k \in kinds}
    IN  StoreOf({[b.obj EXCEPT !.rv = 1] : b \in {x \in built : ~x.err}})

InitCleanup ==
    /\ \E config \in CleanupConfigs :
         mIn \in [fn : {"CleanupRBACForNamespace"},
                  store : {StoreOf({}), StoreOf(OldObjects), GeneratedStore(config)},
                  namespaceName : {"dev-a", "prod-a", "gone"},
                  config : {config}]
    /\ mOut = NoResult
    /\ objects = mIn.store /\ namespaces = <<>>
    /\ configs = [c \in {"c1"} |-> mIn.config]
    /\ WorkersIdle /\ MgrIdle /\ ReconcilersIdle /\ NoInterference

CleanupCall ==
    /\ ~mOut.called
    /\ LET r == CleanupRBACForNamespace(objects, mIn.namespaceName, mIn.config)
       IN  /\ mOut' = [called |-> TRUE, err |-> r.err]
           /\ objects' = r.store
    /\ UNCHANGED <<mIn, namespaces, configs, ap, calls, mgr, nsr, cfr, healthy, faults,
                   extWrites>>

NextCleanup == CleanupCall

SpecCleanup == InitCleanup /\ [][NextCleanup]_vars

\* ------------------------------------------------------------------------
\* SpecLive: the NamespaceRBACConfigReconciler runs fairly on a declaration
\* that holds the finalizer and that no user touches, and on namespaces that
\* stay; another writer updates objects between its reads and its writes,
\* MaxExtWrites times at most, and the store fails MaxFaults times at most.
\* A pass of the NamespaceRBACConfigReconciler follows every event of the
\* declaration and every requeue, MaxPasses passes at most. The Role of the
\* declaration is named after the team label, which dev-a has and prod-a
\* lacks.

LiveTemplates ==
    [NoTemplates EXCEPT
       !.roles = <<RoleT(<<Lit("team-"), LabelRef("team")>>, <<"deployments.create">>)>>,
       !.roleBindings = <<BindingT(<<Lit("bind-"), NsNameRef>>,
                                   <<Lit("team-"), LabelRef("team")>>,
                                   <<Group(<<Lit("admins")>>)>>)>>]

InitLive ==
    /\ MatchUnused
    /\ objects = StoreOf({})
    /\ namespaces = [n \in {"dev-a", "prod-a"} |-> IF n = "dev-a" THEN DevA ELSE ProdA]
    /\ \E selector \in {AnySelector, RegexSelector("^dev-.*")} :
         configs = [c \in {"c1"} |-> Config("c1", selector, LiveTemplates, NilPtr, TRUE)]
    /\ WorkersIdle /\ MgrIdle /\ ReconcilersIdle /\ NoInterference

CfrSteps ==
    \/ CfReconcile("c1")
    \/ CfGet
    \/ CfListNamespaces
    \/ CfLoop
    \/ CfApplied
    \/ CfUpdateStatus
    \/ ApplyTemplate("cfr")
    \/ Get("cfr")
    \/ Create("cfr")
    \/ Update("cfr")
    \/ Probe("cfr")

NextLive ==
    \/ CfrSteps
    \/ \E key \in DOMAIN objects : key.kind = "Role" /\ ExternalWrite(key)

SpecLive == InitLive /\ [][NextLive]_vars /\ WF_vars(CfrSteps)

\* ------------------------------------------------------------------------
\* SpecBoth: the two reconcilers at work at once, the
\* NamespaceRBACConfigReconciler on the declaration and the
\* NamespaceReconciler on dev-a, each with its own calls into the manager,
\* on a store that refuses nothing; a user may delete the declaration

InitBoth ==
    /\ MatchUnused
    /\ objects = StoreOf({})
    /\ namespaces = [n \in {"dev-a", "prod-a"} |-> IF n = "dev-a" THEN DevA ELSE ProdA]
    /\ \E selector \in {AnySelector, RegexSelector("^dev-.*")} :
         configs = [c \in {"c1"} |-> Config("c1", selector, LiveTemplates, NilPtr, TRUE)]
    /\ WorkersIdle /\ MgrIdle /\ ReconcilersIdle
    /\ faults = MaxFaults /\ extWrites = 0 /\ healthy = TRUE

NsrSteps ==
    \/ NsReconcile("dev-a")
    \/ NsGet
    \/ NsList
    \/ NsLoop
    \/ NsApplied
    \/ ApplyTemplate("nsr")
    \/ Get("nsr")
    \/ Create("nsr")
    \/ Update("nsr")
    \/ Probe("nsr")

NextBoth ==
    \/ CfrSteps
    \/ CfUpdate
    \/ NsrSteps
    \/ DeleteConfig("c1")

SpecBoth == InitBoth /\ [][NextBoth]_vars

\* ========================================================================
\* Properties

Last(s) == s[Len(s)]

KindRank(kind) ==
    CASE kind = "Role" -> 1
      [] kind = "ClusterRole" -> 2
      [] kind = "RoleBinding" -> 3
      [] kind = "ClusterRoleBinding" -> 4
      [] OTHER -> 0

AllKinds == {"Role", "ClusterRole", "RoleBinding", "ClusterRoleBinding"}

\* the templates of a declaration, as (kind, idx) pairs
TemplateIds(config) ==
    {<<k, i>> : k \in AllKinds, i \in 1..3} \cap
    {id \in AllKinds \X (1..3) : id[2] <= Len(TemplatesOf(config, id[1]))}

\* the object that template (kind, idx) of the declaration generates for ns
Generated(ns, config, kind, idx) ==
    BuildObject(kind, ns, config, TemplatesOf(config, kind)[idx]).obj

\* the store calls of the direct caller's current call, and those of one template
MgrLog == calls["mgr"]

EntriesOf(log, kind, idx, op) ==
    {i \in DOMAIN log : log[i].kind = kind /\ log[i].idx = idx /\ log[i].op = op}

TerminalResults == {"forbidden", "alreadyexists", "notfound"}

\* this step is a store call of the direct caller's ApplyRBACForNamespace
MgrCalled == Len(calls'["mgr"]) = Len(calls["mgr"]) + 1

\* ---- C1 --------------------------------------------------------------
\* C1: after the NamespaceReconciler handled a create/update event for a
\* namespace that does not match a declaration's selector, no Role or
\* RoleBinding generated for that namespace and that declaration is left in
\* the store.

C1_GeneratedFor(namespaceName, configName) ==
    {key \in DOMAIN objects :
        /\ key.kind \in {"Role", "RoleBinding"}
        /\ key.namespace = namespaceName
        /\ ConfigLabel \in DOMAIN objects[key].labels
        /\ objects[key].labels[ConfigLabel] = <<configName>>}

C1_NoMatch(ns, config) ==
    LET m == NamespaceMatches(ns, config.selector) IN ~m.err /\ ~m.matched

C1_RevokedOnNonMatch ==
    (nsr.pc = "idle" /\ nsr.res.done /\ nsr.res.err = "" /\ nsr.ns.name # "")
    => \A i \in DOMAIN nsr.list :
          C1_NoMatch(nsr.ns, nsr.list[i])
          => C1_GeneratedFor(nsr.ns.name, nsr.list[i].name) = {}

\* ---- C3 --------------------------------------------------------------
\* C3: when ApplyRBACForNamespace fails for a matching namespace during a
\* pass of the NamespaceRBACConfigReconciler, the pass applies to no later
\* namespace and Reconcile returns a non-nil error.

C3_FailedApplies ==
    {i \in DOMAIN cfr.trace : cfr.trace[i].op = "apply" /\ cfr.trace[i].err # ""}

C3_StopsApplying ==
    \A i \in C3_FailedApplies :
       \A j \in DOMAIN cfr.trace : j > i => cfr.trace[j].op # "apply"

C3_ApplyFailureIsReturned ==
    (cfr.pc = "idle" /\ cfr.res.done /\ C3_FailedApplies # {})
    => C3_StopsApplying /\ cfr.res.err # ""

\* ---- C4 ----------------------------------------------------------------
\* C4: NamespaceMatches returns (false, nil) whenever the namespace's name is
\* in ExcludeNamespaces, whatever the include list, the regex (also one that
\* does not compile), the labels and the annotations are.
C4_ExclusionDominates ==
    (mOut.called /\ mIn.ns.name \in Range(mIn.selector.excludeNamespaces))
        => (~mOut.matched /\ ~mOut.err)

C4_Witness ==
    /\ mOut.called
    /\ mIn.ns.name \in Range(mIn.selector.excludeNamespaces)
    /\ mIn.ns.name \in Range(mIn.selector.includeNamespaces)
    /\ mIn.selector.nameRegex = Ptr("[")
    /\ ~mOut.matched /\ ~mOut.err

\* ---- C5 ----------------------------------------------------------------
\* C5: with a regex that compiles, NamespaceMatches is true exactly when the
\* name is not excluded, the include list is empty or has the name, the regex
\* is unset or matches, and every required annotation and label is present
\* with an equal value; a requirement with no entries constrains nothing,
\* also when the namespace's own map is nil.
C5_Criteria(ns, selector) ==
    /\ ns.name \notin Range(selector.excludeNamespaces)
    /\ (Len(selector.includeNamespaces) = 0 \/ ns.name \in Range(selector.includeNamespaces))
    /\ (selector.nameRegex.isNil \/ ns.name \in RegexLanguage[selector.nameRegex.v])
    /\ \A k \in DOMAIN selector.annotations.kv :
          k \in DOMAIN ns.annotations.kv /\ ns.annotations.kv[k] = selector.annotations.kv[k]
    /\ \A k \in DOMAIN selector.labels.kv :
          k \in DOMAIN ns.labels.kv /\ ns.labels.kv[k] = selector.labels.kv[k]

C5_MatchesIffAllCriteria ==
    (mOut.called /\ (mIn.selector.nameRegex.isNil
                     \/ mIn.selector.nameRegex.v \in DOMAIN RegexLanguage))
        => (~mOut.err /\ (mOut.matched <=> C5_Criteria(mIn.ns, mIn.selector)))

\* ---- C2 ----------------------------------------------------------------
\* C2: under merge, a second ApplyRBACForNamespace with the same template
\* output, with nothing else writing or failing, leaves every object with
\* the rule list and the subject set the first one left.
C2_MergeIdempotent ==
    (/\ ap["mgr"].pc = "ret" /\ ap["mgr"].err = ""
     /\ EffectiveStrategy(configs["c1"]) = "merge"
     /\ mgr.last.ns = mgr.ns /\ mgr.last.err = ""
     /\ mgr.ext = extWrites /\ mgr.flt = faults)
        => \A k \in DOMAIN mgr.last.after :
              /\ objects[k].rules = mgr.last.after[k].rules
              /\ Range(objects[k].subjects) = Range(mgr.last.after[k].subjects)

\* ---- C6 ----------------------------------------------------------------
\* C6: the store calls of one ApplyRBACForNamespace go through the Role
\* templates, then the ClusterRole, RoleBinding and ClusterRoleBinding
\* templates, each kind in declaration order; a failed substitution or store
\* call ends the call with that error and no later store call; a call that
\* returns nil went through every template; and what earlier templates wrote
\* is still in the store when the call returns an error.
C6_InOrder(log) ==
    \A i, j \in DOMAIN log :
        i < j => \/ KindRank(log[i].kind) < KindRank(log[j].kind)
                 \/ log[i].kind = log[j].kind /\ log[i].idx <= log[j].idx

\* a store call whose error ends the template's upsert
C6_Failed(e) ==
    \/ e.res \in {"forbidden", "alreadyexists"}
    \/ e.op = "update" /\ e.res = "notfound"
    \/ e.op = "update" /\ e.res = "conflict" /\ (e.att = 2 \/ ~NamespaceScoped(e.kind))

C6_FailFast(log, f) ==
    /\ \A i \in DOMAIN log :
          C6_Failed(log[i]) => (i = Len(log) /\ f.pc = "ret" /\ f.err # "")
    /\ (f.pc = "ret" /\ f.err # "")
          => (f.err = "template" \/ (log # <<>> /\ C6_Failed(Last(log))))
    /\ (f.pc = "ret" /\ f.err = "template") => (log = <<>> \/ ~C6_Failed(Last(log)))

C6_OrderedFailFastNoRollback ==
    ap["mgr"].pc # "idle" =>
        LET f == ap["mgr"]
            ns == namespaces[mgr.ns]
            cfg == configs["c1"]
        IN  /\ C6_InOrder(MgrLog)
            /\ C6_FailFast(MgrLog, f)
            /\ (f.pc = "ret" /\ f.err = "")
                  => \A id \in TemplateIds(cfg) : EntriesOf(MgrLog, id[1], id[2], "get") # {}
            /\ (f.pc = "ret" /\ f.err # "")
                  => \A i \in DOMAIN MgrLog :
                        (MgrLog[i].op \in {"create", "update"} /\ MgrLog[i].res = "")
                          => LET o == Generated(ns, cfg, MgrLog[i].kind, MgrLog[i].idx)
                             IN  /\ KeyOf(o) \in DOMAIN objects
                                 /\ objects[KeyOf(o)].labels = o.labels

C6_Witness ==
    /\ ap["mgr"].pc = "ret" /\ ap["mgr"].err = "forbidden"
    /\ Last(MgrLog).kind = "RoleBinding"
    /\ \E i \in DOMAIN MgrLog :
          MgrLog[i].kind = "ClusterRole" /\ MgrLog[i].op = "create" /\ MgrLog[i].res = ""
    /\ \E i \in DOMAIN MgrLog :
          MgrLog[i].kind = "Role" /\ MgrLog[i].idx = 2 /\ MgrLog[i].op = "create"
          /\ MgrLog[i].res = ""

\* ---- C7 ----------------------------------------------------------------
\* C7: the upsert of a Role or RoleBinding makes at most 3 fetch-then-update
\* attempts, a further attempt only after a version conflict, and the third
\* conflict in a row ends it with an error; the upsert of a ClusterRole or
\* ClusterRoleBinding makes one attempt and returns a conflict as an error.
C7_Attempts(log, f) ==
    \A i \in DOMAIN log :
        /\ (log[i].op = "get" /\ NamespaceScoped(log[i].kind))
              => /\ Cardinality(EntriesOf(log, log[i].kind, log[i].idx, "get")) <= 3
                 /\ log[i].att > 0
                       => /\ log[i - 1].op = "update" /\ log[i - 1].res = "conflict"
                          /\ log[i - 1].kind = log[i].kind /\ log[i - 1].idx = log[i].idx
                          /\ log[i - 1].att = log[i].att - 1
        /\ (log[i].op = "get" /\ ~NamespaceScoped(log[i].kind))
              => /\ Cardinality(EntriesOf(log, log[i].kind, log[i].idx, "get")) = 1
                 /\ log[i].att = 0
        /\ (log[i].op = "update" /\ log[i].res = "conflict"
            /\ (log[i].att = 2 \/ ~NamespaceScoped(log[i].kind)))
              => (i = Len(log) /\ f.pc = "ret" /\ f.err \in {"retries", "conflict"})

C7_BoundedRetry == ap["mgr"].pc # "idle" => C7_Attempts(MgrLog, ap["mgr"])

C7_Witness ==
    /\ ap["mgr"].pc = "ret" /\ ap["mgr"].err = "retries"
    /\ Cardinality(EntriesOf(MgrLog, "RoleBinding", 1, "update")) = 3

\* ---- C8 ----------------------------------------------------------------
\* C8: in the upsert of every kind a not-found fetch is followed by one
\* create, whose result is the upsert's; a fetch that fails otherwise, and
\* an update that fails with something other than a conflict, ends the
\* upsert with that error and no further store call.
C8_Protocol(log, f) ==
    \A i \in DOMAIN log :
        /\ (log[i].op = "get" /\ log[i].res = "notfound")
              => IF i = Len(log) THEN f.pc = "create"
                 ELSE /\ log[i + 1].op = "create"
                      /\ log[i + 1].kind = log[i].kind /\ log[i + 1].idx = log[i].idx
        /\ log[i].op = "create"
              => /\ i > 1 /\ log[i - 1].op = "get" /\ log[i - 1].res = "notfound"
                 /\ Cardinality(EntriesOf(log, log[i].kind, log[i].idx, "create")) = 1
                 /\ (log[i].res # "" => i = Len(log) /\ f.pc = "ret" /\ f.err = log[i].res)
                 /\ (log[i].res = "" /\ i = Len(log)) => f.err = ""
        /\ (log[i].op \in {"get", "update"} /\ log[i].res \in TerminalResults \ {"notfound"})
              => (i = Len(log) /\ f.pc = "ret" /\ f.err = log[i].res)
        /\ (log[i].op = "update" /\ log[i].res = "notfound")
              => (i = Len(log) /\ f.pc = "ret" /\ f.err = log[i].res)

C8_NotFoundCreatesErrorsReturn == ap["mgr"].pc # "idle" => C8_Protocol(MgrLog, ap["mgr"])

C8_Witness ==
    /\ ap["mgr"].pc = "ret" /\ ap["mgr"].err = "forbidden"
    /\ Last(MgrLog).op = "get" /\ Last(MgrLog).kind = "ClusterRoleBinding"
    /\ \E i \in DOMAIN MgrLog : MgrLog[i].op = "create" /\ MgrLog[i].res = ""

\* ---- C9 ----------------------------------------------------------------
\* C9: under the ignore strategy no step of the manager changes an object
\* that exists (rules, subjects, labels, annotations, version token), and a
\* fetch that finds the object ends the template's upsert with success.
C9_IgnoreStep ==
    EffectiveStrategy(configs["c1"]) = "ignore" =>
        /\ \A k \in DOMAIN objects : k \in DOMAIN objects' /\ objects'[k] = objects[k]
        /\ (MgrCalled /\ Last(calls'["mgr"]).op = "get"
            /\ Last(calls'["mgr"]).res = "found")
              => ap'["mgr"].pc \in {"probe", "next"}

C9_IgnoreLeavesExisting == [][C9_IgnoreStep]_vars

C9_Witness ==
    /\ EffectiveStrategy(configs["c1"]) = "ignore"
    /\ ap["mgr"].pc = "ret" /\ ap["mgr"].err = "" /\ mgr.ns = "dev-a"
    /\ \E i \in DOMAIN MgrLog : MgrLog[i].kind = "RoleBinding" /\ MgrLog[i].res = "found"
    /\ objects[KeyOf(Generated(DevA, configs["c1"], "Role", 1))].rules = <<"old.rule">>
    /\ Generated(DevA, configs["c1"], "Role", 1).rules # <<"old.rule">>

\* ---- C10 ---------------------------------------------------------------
\* C10: under the replace strategy a successful update leaves, in the stored
\* object, exactly the rules (Role, ClusterRole) or subjects (RoleBinding,
\* ClusterRoleBinding) that the template produces.
C10_ReplaceStep ==
    (/\ EffectiveStrategy(configs["c1"]) = "replace"
     /\ MgrCalled
     /\ Last(calls'["mgr"]).op = "update" /\ Last(calls'["mgr"]).res = "")
        => LET e == Last(calls'["mgr"])
               o == Generated(namespaces[mgr.ns], configs["c1"], e.kind, e.idx)
           IN  /\ objects'[KeyOf(o)].rules = o.rules
               /\ objects'[KeyOf(o)].subjects = o.subjects

C10_ReplaceDiscardsPrior == [][C10_ReplaceStep]_vars

C10_Witness ==
    /\ EffectiveStrategy(configs["c1"]) = "replace"
    /\ ap["mgr"].pc = "ret" /\ ap["mgr"].err = "" /\ mgr.ns = "dev-a"
    /\ mgr.n = 1
    /\ \E i \in DOMAIN MgrLog :
          MgrLog[i].kind = "ClusterRoleBinding" /\ MgrLog[i].op = "update" /\ MgrLog[i].res = ""
    /\ objects[KeyOf(Generated(DevA, configs["c1"], "Role", 1))].rules = <<"pods.get">>
    /\ Group(<<"auditors">>) \notin
          Range(objects[KeyOf(Generated(DevA, configs["c1"], "ClusterRoleBinding", 1))].subjects)

\* ---- C13 ---------------------------------------------------------------
\* C13: mergeRules(existing, new) is the existing rules in their order
\* followed by the new rules in their order: its length is
\* len(existing)+len(new) and nothing is dropped or reordered. The result is
\* a copy, so the arguments are as they were.
C13_ConcatenatesInOrder ==
    (mOut.called /\ mIn.fn = "mergeRules")
    => /\ Len(mOut.result) = Len(mIn.existing) + Len(mIn.new)
       /\ \A i \in DOMAIN mIn.existing : mOut.result[i] = mIn.existing[i]
       /\ \A i \in DOMAIN mIn.new : mOut.result[Len(mIn.existing) + i] = mIn.new[i]

C13_Witness ==
    /\ mOut.called /\ mIn.fn = "mergeRules"
    /\ mIn.existing = <<"old.rule", "pods.get">>
    /\ mIn.new = <<"deployments.create", "pods.get">>
    /\ mOut.result = <<"old.rule", "pods.get", "deployments.create", "pods.get">>

\* ---- C14 ---------------------------------------------------------------
\* C14: mergeSubjects(existing, new) returns exactly one subject for each
\* distinct (kind, apiGroup, name, namespace) occurring in existing or new,
\* and nothing else; every subject of new is in the result.
C14_Fields(subject) ==
    <<subject.kind, subject.apiGroup, subject.name, subject.namespace>>

C14_OnePerCompositeKey ==
    (mOut.called /\ mIn.fn = "mergeSubjects")
    => LET given == Range(mIn.existing) \cup Range(mIn.new)
       IN  /\ \A s \in given :
                Cardinality({i \in DOMAIN mOut.result :
                               C14_Fields(mOut.result[i]) = C14_Fields(s)}) = 1
           /\ Range(mOut.result) \subseteq given
           /\ Range(mIn.new) \subseteq Range(mOut.result)

\* the last store call of the manager's caller wrote the object of the
\* template in hand
MgrWrote ==
    /\ ap["mgr"].pc \in {"probe", "next"}
    /\ Len(MgrLog) > 0
    /\ Last(MgrLog).op \in {"create", "update"}
    /\ Last(MgrLog).res = ""
    /\ Last(MgrLog).kind = ap["mgr"].obj.kind
    /\ Last(MgrLog).idx = ap["mgr"].idx

MgrWritten == objects[KeyOf(ap["mgr"].obj)]

MgrTemplate == TemplatesOf(ap["mgr"].cfg, ap["mgr"].obj.kind)[ap["mgr"].idx]

\* ---- C11 ---------------------------------------------------------------
\* C11: every object the manager creates or updates carries
\* rbac.operator.io/owned-by=namespace-rbac-operator and
\* rbac.operator.io/config=<declaration name>; a template label with an
\* operator-managed key never overrides the operator's value.
C11_Managed(labels, k, v) == k \in DOMAIN labels /\ labels[k] = <<v>>

C11_OperatorLabelsForced ==
    MgrWrote
    => /\ C11_Managed(MgrWritten.labels, OwnerLabel, "namespace-rbac-operator")
       /\ C11_Managed(MgrWritten.labels, ConfigLabel, ap["mgr"].cfg.name)
       /\ NamespaceLabel \in DOMAIN MgrTemplate.labels.kv
          => C11_Managed(MgrWritten.labels, NamespaceLabel, ap["mgr"].ns.name)

\* an update of an object made from a template that sets the owner label
C11_Witness ==
    /\ MgrWrote
    /\ Last(MgrLog).op = "update"
    /\ OwnerLabel \in DOMAIN MgrTemplate.labels.kv
    /\ MgrWritten.labels["env"] = <<"env-", "dev-a">>

\* ---- C12 ---------------------------------------------------------------
\* C12, as the spec has it: the rbac.operator.io/namespace label is on the
\* generated Roles and RoleBindings, with the namespace's name, and not on
\* the generated ClusterRoles and ClusterRoleBindings.
C12_NamespaceLabelOnNamespacedOnly ==
    MgrWrote
    => IF NamespaceScoped(MgrWritten.kind)
       THEN C11_Managed(MgrWritten.labels, NamespaceLabel, ap["mgr"].ns.name)
       ELSE NamespaceLabel \notin DOMAIN MgrWritten.labels

\* C12, amended: the label is on every object the manager writes, of all
\* four kinds, with the name of the namespace the call applies to.
C12_NamespaceLabelOnAllKinds ==
    MgrWrote => C11_Managed(MgrWritten.labels, NamespaceLabel, ap["mgr"].ns.name)

C12_Witness ==
    /\ MgrWrote
    /\ MgrWritten.kind = "ClusterRoleBinding"
    /\ ap["mgr"].ns.name = "dev-a"
    /\ MgrWritten.labels[NamespaceLabel] = <<"dev-a">>

\* ---- C15 ---------------------------------------------------------------
\* C15: the object written for a template is named by the fully substituted
\* template name; a Role or RoleBinding is in the namespace of the call; a
\* binding's roleRef name and the names of the template's subjects are the
\* substituted values, so a binding whose roleRef uses the name template of
\* one of the declaration's Roles refers to that Role's generated name.
C15_Substituted(templateStr, ns) ==
    [i \in DOMAIN templateStr |->
        CASE templateStr[i].t = "lit" -> templateStr[i].v
          [] templateStr[i].t = "ns" -> ns.name
          [] templateStr[i].t = "label" -> ns.labels.kv[templateStr[i].v]]

C15_FullySubstituted ==
    MgrWrote
    => LET ns == ap["mgr"].ns
           roles == TemplatesOf(ap["mgr"].cfg, "Role")
       IN  /\ MgrWritten.name = C15_Substituted(MgrTemplate.name, ns)
           /\ NamespaceScoped(MgrWritten.kind) => MgrWritten.namespace = ns.name
           /\ IsBinding(MgrWritten.kind)
              => /\ MgrWritten.roleRef = C15_Substituted(MgrTemplate.roleRefName, ns)
                 /\ \A i \in DOMAIN MgrTemplate.subjects :
                       \E j \in DOMAIN MgrWritten.subjects :
                          MgrWritten.subjects[j].name
                             = C15_Substituted(MgrTemplate.subjects[i].name, ns)
                 /\ \A r \in DOMAIN roles :
                       MgrTemplate.roleRefName = roles[r].name
                       => MgrWritten.roleRef = C15_Substituted(roles[r].name, ns)

\* the RoleBinding of dev-a written with a roleRef to the Role that the same
\* call generated in dev-a
C15_Witness ==
    /\ MgrWrote
    /\ MgrWritten.kind = "RoleBinding"
    /\ MgrWritten.name = <<"bind-", "dev-a">>
    /\ MgrWritten.namespace = "dev-a"
    /\ MgrWritten.roleRef = <<"reader-", "dev-a">>
    /\ [kind |-> "Role", namespace |-> "dev-a", name |-> MgrWritten.roleRef]
          \in DOMAIN objects

\* the ClusterRoleBinding written with its subject's name substituted
C15_SubjectWitness ==
    /\ MgrWrote
    /\ MgrWritten.kind = "ClusterRoleBinding"
    /\ \E j \in DOMAIN MgrWritten.subjects :
          MgrWritten.subjects[j].name = <<"sa-", "dev-a">>

\* the declaration that r.Get of Reconcile returns in this step
CfFetched == configs[cfr.req]

\* this step is the r.Get of a pass, and it returns the declaration
CfFetches ==
    /\ cfr.pc = "get"
    /\ cfr'.pc # "get"
    /\ cfr'.config # NoCfg

\* ---- C16 ---------------------------------------------------------------
\* C16: a pass that fetches a declaration without deletion timestamp and
\* without the finalizer adds the finalizer and goes to r.Update with nothing
\* else done; the update, when the store takes it, persists the finalizer
\* with the status as it was, and Reconcile asks for a requeue; the pass
\* validates nothing, applies to no namespace and writes no status.
C16_Adds ==
    (CfFetches /\ ~CfFetched.deleting /\ ~CfFetched.finalizer)
    => /\ cfr'.pc = "update"
       /\ cfr'.config = [CfFetched EXCEPT !.finalizer = TRUE]
       /\ cfr'.trace = <<>>
       /\ UNCHANGED <<configs, objects, ap, calls>>

C16_Adding == cfr.pc = "update" /\ ~cfr.config.deleting /\ cfr.config.finalizer

C16_Persists ==
    (C16_Adding /\ cfr' # cfr)
    => /\ cfr'.pc = "idle" /\ cfr'.res.done
       /\ Len(cfr'.trace) = 1 /\ cfr'.trace[1].op = "update"
       /\ cfr'.res.err = cfr'.trace[1].err
       /\ IF cfr'.res.err = ""
          THEN /\ cfr'.res.requeue
               /\ configs'[cfr.req].finalizer
               /\ configs'[cfr.req].status = configs[cfr.req].status
               /\ configs'[cfr.req].selector = configs[cfr.req].selector
               /\ configs'[cfr.req].templates = configs[cfr.req].templates
          ELSE UNCHANGED configs
       /\ UNCHANGED <<objects, ap, calls>>

C16_FinalizerFirst == [][C16_Adds /\ C16_Persists]_vars

\* the pass that added the finalizer is over and asked for a requeue
C16_Witness ==
    /\ cfr.pc = "idle" /\ cfr.res.done /\ cfr.res.requeue /\ cfr.res.err = ""
    /\ cfr.trace = <<[op |-> "update", ns |-> "", err |-> ""]>>
    /\ cfr.n = 1
    /\ configs["c1"].finalizer /\ ~configs["c1"].deleting
    /\ configs["c1"].status = NoStatus

\* ---- C17 ---------------------------------------------------------------
\* C17: a pass that fetches a declaration with deletion timestamp and the
\* finalizer calls CleanupRBACForNamespace once for each entry of
\* status.appliedNamespaces, in order and whatever the calls return, and only
\* then removes the finalizer and calls r.Update; when the update fails
\* Reconcile returns an error; a declaration with deletion timestamp and
\* without the finalizer is left as it is.
C17_CleansAll ==
    (CfFetches /\ CfFetched.deleting /\ CfFetched.finalizer)
    => /\ cfr'.pc = "update"
       /\ ~cfr'.config.finalizer
       /\ Len(cfr'.trace) = Len(CfFetched.status.appliedNamespaces)
       /\ \A i \in DOMAIN cfr'.trace :
             /\ cfr'.trace[i].op = "cleanup"
             /\ cfr'.trace[i].ns = CfFetched.status.appliedNamespaces[i]
       /\ UNCHANGED configs

C17_Removing == cfr.pc = "update" /\ cfr.config.deleting /\ ~cfr.config.finalizer

C17_Removes ==
    (C17_Removing /\ cfr' # cfr)
    => /\ cfr'.pc = "idle" /\ cfr'.res.done
       /\ cfr'.trace = Append(cfr.trace, Last(cfr'.trace))
       /\ Last(cfr'.trace).op = "update"
       /\ IF Last(cfr'.trace).err # ""
          THEN cfr'.res.err # "" /\ UNCHANGED configs
          ELSE /\ cfr'.res.err = ""
               /\ cfr.req \in DOMAIN configs' => ~configs'[cfr.req].finalizer

C17_Untouched ==
    (CfFetches /\ CfFetched.deleting /\ ~CfFetched.finalizer)
    => /\ cfr'.pc = "idle" /\ cfr'.res.done /\ cfr'.res.err = ""
       /\ cfr'.trace = <<>>
       /\ UNCHANGED <<configs, objects, ap, calls>>

C17_Teardown == [][C17_CleansAll /\ C17_Removes /\ C17_Untouched]_vars

\* the teardown of a declaration that was applied to dev-a and prod-a: two
\* cleanup calls, then the update that let the store drop the declaration
C17_Witness ==
    /\ cfr.pc = "idle" /\ cfr.res.done /\ cfr.res.err = ""
    /\ cfr.trace = <<[op |-> "cleanup", ns |-> "dev-a", err |-> ""],
                     [op |-> "cleanup", ns |-> "prod-a", err |-> ""],
                     [op |-> "update", ns |-> "", err |-> ""]>>
    /\ "c1" \notin DOMAIN configs

\* a pass over a declaration that another finalizer keeps in the store
C17_UntouchedWitness ==
    /\ cfr.pc = "idle" /\ cfr.res.done /\ cfr.trace = <<>>
    /\ cfr.config # NoCfg /\ cfr.config.deleting /\ ~cfr.config.finalizer
    /\ "c1" \in DOMAIN configs /\ configs["c1"] = cfr.config

\* the update that removes the finalizer failed
C17_FailedWitness ==
    /\ cfr.pc = "idle" /\ cfr.res.done /\ cfr.res.err # ""
    /\ cfr.config # NoCfg /\ cfr.config.deleting
    /\ Len(cfr.trace) > 0 /\ Last(cfr.trace).op = "update"
    /\ "c1" \in DOMAIN configs /\ configs["c1"].finalizer

\* ---- C18 ---------------------------------------------------------------
\* C18: a pass that fetches a declaration with the finalizer whose regex is
\* set and does not compile, or whose four template lists are all empty,
\* goes to the status update with Degraded True, Ready False and Progressing
\* False and with no namespace applied; the status update, when the store
\* takes it, persists these conditions, and no ApplyRBACForNamespace call is
\* made in the pass.
C18_Invalid(config) ==
    \/ config.selector.nameRegex # NilPtr
       /\ config.selector.nameRegex.v \notin DOMAIN RegexLanguage
    \/ /\ config.templates.roles = <<>>
       /\ config.templates.clusterRoles = <<>>
       /\ config.templates.roleBindings = <<>>
       /\ config.templates.clusterRoleBindings = <<>>

C18_Has(status, conditionType, value) ==
    /\ \E i \in DOMAIN status.conditions :
          status.conditions[i].type = conditionType
    /\ \A i \in DOMAIN status.conditions :
          status.conditions[i].type = conditionType
          => status.conditions[i].status = value

C18_Degraded(status) ==
    /\ C18_Has(status, ConditionTypeDegraded, "True")
    /\ C18_Has(status, ConditionTypeReady, "False")
    /\ C18_Has(status, ConditionTypeProgressing, "False")

C18_Rejects ==
    (CfFetches /\ ~CfFetched.deleting /\ CfFetched.finalizer /\ C18_Invalid(CfFetched))
    => /\ cfr'.pc = "status"
       /\ C18_Degraded(cfr'.config.status)
       /\ cfr'.trace = <<[op |-> "validate", ns |-> "", err |-> cfr'.trace[1].err]>>
       /\ cfr'.trace[1].err # ""
       /\ UNCHANGED <<configs, objects, ap, calls>>

C18_Rejected ==
    /\ cfr.pc = "status"
    /\ Len(cfr.trace) = 1 /\ cfr.trace[1].op = "validate"

C18_PersistsDegraded ==
    (C18_Rejected /\ cfr' # cfr)
    => /\ cfr'.pc = "idle" /\ cfr'.res.done
       /\ \A i \in DOMAIN cfr'.trace : cfr'.trace[i].op # "apply"
       /\ Last(cfr'.trace).op = "status"
       /\ Last(cfr'.trace).err = "" => C18_Degraded(configs'[cfr.req].status)
       /\ Last(cfr'.trace).err # "" => UNCHANGED configs
       /\ UNCHANGED <<objects, ap, calls>>

C18_ValidationFailure == [][C18_Rejects /\ C18_PersistsDegraded]_vars

\* a declaration without templates was rejected and its status persisted
C18_Witness ==
    /\ cfr.pc = "idle" /\ cfr.res.done
    /\ cfr.trace = <<[op |-> "validate", ns |-> "",
                      err |-> "at least one RBAC template must be specified"],
                     [op |-> "status", ns |-> "", err |-> ""]>>
    /\ "c1" \in DOMAIN configs
    /\ configs["c1"].templates = NoTemplates
    /\ C18_Degraded(configs["c1"].status)

\* a declaration whose regex does not compile was rejected
C18_RegexWitness ==
    /\ cfr.pc = "idle" /\ cfr.res.done
    /\ Len(cfr.trace) = 2 /\ cfr.trace[1].err = "invalid nameRegex"
    /\ cfr.trace[2] = [op |-> "status", ns |-> "", err |-> ""]
    /\ "c1" \in DOMAIN configs
    /\ configs["c1"].selector.nameRegex = Ptr("[")
    /\ configs["c1"].templates # NoTemplates
    /\ C18_Degraded(configs["c1"].status)

\* ---- C19 ---------------------------------------------------------------
\* C19: after ApplyRBACForNamespace failed in a pass, the status update,
\* when the store takes it, persists Degraded True and Ready False, and
\* leaves status.appliedNamespaces and status.observedGeneration as they
\* were in the store: the namespaces applied before the failure are not
\* recorded.
C19_ApplyFailed ==
    /\ cfr.pc = "status"
    /\ Len(cfr.trace) > 0
    /\ Last(cfr.trace).op = "apply" /\ Last(cfr.trace).err # ""

C19_NoPartialSuccess ==
    [][(C19_ApplyFailed /\ cfr' # cfr)
       => /\ cfr'.pc = "idle" /\ cfr'.res.done
          /\ Last(cfr'.trace).op = "status"
          /\ IF Last(cfr'.trace).err = ""
             THEN LET before == configs[cfr.req].status
                      after == configs'[cfr.req].status
                  IN  /\ C18_Has(after, ConditionTypeDegraded, "True")
                      /\ C18_Has(after, ConditionTypeReady, "False")
                      /\ after.appliedNamespaces = before.appliedNamespaces
                      /\ after.observedGeneration = before.observedGeneration
             ELSE UNCHANGED configs]_vars

\* dev-a was applied, prod-a failed, and the status written keeps the empty
\* list of the first pass
C19_Witness ==
    /\ cfr.pc = "idle" /\ cfr.res.done
    /\ Len(cfr.trace) = 3
    /\ cfr.trace[1] = [op |-> "apply", ns |-> "dev-a", err |-> ""]
    /\ cfr.trace[2].op = "apply" /\ cfr.trace[2].ns = "prod-a" /\ cfr.trace[2].err # ""
    /\ cfr.trace[3] = [op |-> "status", ns |-> "", err |-> ""]
    /\ "c1" \in DOMAIN configs
    /\ configs["c1"].status.appliedNamespaces = <<>>
    /\ C18_Has(configs["c1"].status, ConditionTypeDegraded, "True")

\* a second pass failed after a first that recorded dev-a: the record stays
C19_KeepsWitness ==
    /\ cfr.pc = "idle" /\ cfr.res.done /\ cfr.n = 2
    /\ Len(cfr.trace) > 1
    /\ cfr.trace[Len(cfr.trace) - 1].op = "apply"
    /\ cfr.trace[Len(cfr.trace) - 1].err # ""
    /\ Last(cfr.trace) = [op |-> "status", ns |-> "", err |-> ""]
    /\ "c1" \in DOMAIN configs
    /\ configs["c1"].status.appliedNamespaces # <<>>
    /\ configs["c1"].status.observedGeneration = 1
    /\ C18_Has(configs["c1"].status, ConditionTypeDegraded, "True")

\* ---- C20 ---------------------------------------------------------------
\* C20: when the loop of a pass ends without an error, the status in hand
\* has appliedNamespaces equal to the names of the listed namespaces that
\* matched the selector, in list order, observedGeneration equal to the
\* declaration's generation, Ready True, Degraded False and Progressing
\* False; ApplyRBACForNamespace was called for these namespaces and no
\* other; the status update, when the store takes it, persists that status.
C20_MatchedNames ==
    LET matched == SelectSeq(cfr.list,
                             LAMBDA ns : LET m == NamespaceMatches(ns, cfr.config.selector)
                                         IN  ~m.err /\ m.matched)
    IN  [i \in DOMAIN matched |-> matched[i].name]

C20_AppliedNames ==
    LET applies == SelectSeq(cfr.trace, LAMBDA e : e.op = "apply")
    IN  [i \in DOMAIN applies |-> applies[i].ns]

C20_Ready(status) ==
    /\ C18_Has(status, ConditionTypeReady, "True")
    /\ C18_Has(status, ConditionTypeDegraded, "False")
    /\ C18_Has(status, ConditionTypeProgressing, "False")

C20_Fills ==
    (cfr.pc = "loop" /\ cfr.k > Len(cfr.list) /\ cfr' # cfr)
    => /\ cfr'.pc = "status"
       /\ cfr'.config.status.appliedNamespaces = C20_MatchedNames
       /\ cfr'.config.status.observedGeneration = cfr.config.generation
       /\ C20_Ready(cfr'.config.status)
       /\ C20_AppliedNames = C20_MatchedNames
       /\ \A i \in DOMAIN cfr.trace : cfr.trace[i].op = "apply" => cfr.trace[i].err = ""
       /\ cfr'.trace = cfr.trace

C20_Succeeded ==
    /\ cfr.pc = "status"
    /\ C18_Has(cfr.config.status, ConditionTypeReady, "True")

C20_Persists ==
    (C20_Succeeded /\ cfr' # cfr)
    => /\ cfr'.pc = "idle" /\ cfr'.res.done
       /\ Last(cfr'.trace).op = "status"
       /\ IF Last(cfr'.trace).err = ""
          THEN /\ configs'[cfr.req].status = cfr.config.status
               /\ configs'[cfr.req].status.observedGeneration
                     = configs'[cfr.req].generation
               /\ cfr'.res.err = ""
          ELSE UNCHANGED configs

C20_SuccessStatus == [][C20_Fills /\ C20_Persists]_vars

\* a pass over dev-a and prod-a applied to dev-a alone and persisted it
C20_Witness ==
    /\ cfr.pc = "idle" /\ cfr.res.done /\ cfr.res.err = ""
    /\ cfr.trace = <<[op |-> "apply", ns |-> "dev-a", err |-> ""],
                     [op |-> "status", ns |-> "", err |-> ""]>>
    /\ Len(cfr.list) = 2
    /\ "c1" \in DOMAIN configs
    /\ configs["c1"].status.appliedNamespaces = <<"dev-a">>
    /\ configs["c1"].status.observedGeneration = 1
    /\ C20_Ready(configs["c1"].status)

\* a pass that applied to both namespaces, in list order
C20_BothWitness ==
    /\ cfr.pc = "idle" /\ cfr.res.done /\ cfr.res.err = ""
    /\ "c1" \in DOMAIN configs
    /\ configs["c1"].status.appliedNamespaces = <<"dev-a", "prod-a">>
    /\ C20_Ready(configs["c1"].status)

\* ---- C21 ---------------------------------------------------------------
\* C21: over the passes of the reconciler, the lastTransitionTime of a
\* condition in the store changes only in a pass that changes the
\* condition's status value: a status update that writes a condition with
\* the status it had in the store keeps its lastTransitionTime.
C21_Condition(status, conditionType) ==
    status.conditions[CHOOSE i \in DOMAIN status.conditions :
                         status.conditions[i].type = conditionType]

C21_Present(status, conditionType) ==
    \E i \in DOMAIN status.conditions : status.conditions[i].type = conditionType

C21_KeepsTime(conditionType) ==
    (/\ cfr.req \in DOMAIN configs /\ cfr.req \in DOMAIN configs'
     /\ C21_Present(configs[cfr.req].status, conditionType)
     /\ C21_Present(configs'[cfr.req].status, conditionType)
     /\ C21_Condition(configs'[cfr.req].status, conditionType).status
           = C21_Condition(configs[cfr.req].status, conditionType).status)
    => C21_Condition(configs'[cfr.req].status, conditionType).lastTransitionTime
          = C21_Condition(configs[cfr.req].status, conditionType).lastTransitionTime

C21_TransitionTimeOnChangeOnly ==
    [][\A conditionType \in {ConditionTypeProgressing, ConditionTypeReady,
                             ConditionTypeDegraded} :
          C21_KeepsTime(conditionType)]_vars

\* the same for Ready and Degraded alone, which no pass sets twice
C21_ReadyAndDegradedKeepTime ==
    [][C21_KeepsTime(ConditionTypeReady) /\ C21_KeepsTime(ConditionTypeDegraded)]_vars

\* a second pass persisted Ready with the status and the time of the first
C21_ReadyWitness ==
    /\ cfr.pc = "idle" /\ cfr.res.done /\ cfr.n = 2
    /\ Len(cfr.trace) > 0
    /\ Last(cfr.trace) = [op |-> "status", ns |-> "", err |-> ""]
    /\ "c1" \in DOMAIN configs
    /\ C21_Present(configs["c1"].status, ConditionTypeReady)
    /\ C21_Condition(configs["c1"].status, ConditionTypeReady).lastTransitionTime = 1

\* ---- C22 ---------------------------------------------------------------
\* C22: the NamespaceRBACConfigReconciler calls CleanupRBACForNamespace in
\* the teardown of a declaration only; a pass that succeeds after the
\* selector stopped matching a namespace recorded in status.appliedNamespaces
\* persists a list without that namespace, and no step of a pass removes an
\* object from the store.
C22_StoppedMatching(n) ==
    \A i \in DOMAIN cfr.list :
       cfr.list[i].name = n
       => LET m == NamespaceMatches(cfr.list[i], cfr.config.selector)
          IN  ~m.err /\ ~m.matched

C22_CleanupInTeardownOnly ==
    \A i \in DOMAIN cfr'.trace :
       cfr'.trace[i].op = "cleanup" => cfr'.config.deleting

C22_Drops ==
    (C20_Succeeded /\ cfr' # cfr /\ Last(cfr'.trace).err = "")
    => \A n \in Range(configs[cfr.req].status.appliedNamespaces) :
          C22_StoppedMatching(n)
          => n \notin Range(configs'[cfr.req].status.appliedNamespaces)

C22_KeepsObjects ==
    \A key \in DOMAIN objects : key \in DOMAIN objects'

C22_NoRevocation ==
    [][C22_CleanupInTeardownOnly /\ C22_Drops /\ C22_KeepsObjects]_vars

\* the declaration matched every namespace, then dev-* only: the second
\* pass recorded dev-a alone and the Role made for prod-a is still there
C22_Witness ==
    /\ cfr.pc = "idle" /\ cfr.res.done /\ cfr.res.err = "" /\ cfr.n = 2
    /\ "c1" \in DOMAIN configs
    /\ configs["c1"].generation = 2
    /\ configs["c1"].status.observedGeneration = 2
    /\ configs["c1"].status.appliedNamespaces = <<"dev-a">>
    /\ \A i \in DOMAIN cfr.trace : cfr.trace[i].op # "cleanup"
    /\ [kind |-> "Role", namespace |-> "prod-a", name |-> <<"reader-", "prod-a">>]
          \in DOMAIN objects

C24_CreateOrUpdateDone ==
    /\ nsr.pc = "idle" /\ nsr.res.done
    /\ nsr.ns # NoNs
    /\ Len(nsr.list) > 0

C24_BestEffort ==
    C24_CreateOrUpdateDone
    => /\ Len(nsr.trace) = Len(nsr.list)
       /\ \A i \in DOMAIN nsr.list : nsr.trace[i].config = nsr.list[i].name
       /\ nsr.res.err = ""
       /\ ~nsr.res.requeue

\* the match of c0 failed, c1 was applied or cleaned, the apply of c2 failed
\* as the last, and the pass returned nil
C24_Witness ==
    /\ C24_CreateOrUpdateDone
    /\ Len(nsr.trace) = 3
    /\ nsr.trace[1].op = "match" /\ nsr.trace[1].err # ""
    /\ nsr.trace[2].err = ""
    /\ nsr.trace[3].op = "apply" /\ nsr.trace[3].err # ""
    /\ nsr.res.err = ""

\* the apply of c1 failed and c2 was still applied
C24_ApplyWitness ==
    /\ C24_CreateOrUpdateDone
    /\ Len(nsr.trace) = 3
    /\ nsr.trace[2].op = "apply" /\ nsr.trace[2].err # ""
    /\ nsr.trace[3].op = "apply" /\ nsr.trace[3].err = ""

\* ---- C25 ---------------------------------------------------------------
\* C25: a pass of the NamespaceReconciler whose r.Get finds no namespace
\* goes to handleNamespaceDeletion; with the list of declarations in hand it
\* calls CleanupRBACForNamespace once for each declaration in the store,
\* whatever its selector and whatever an earlier call returned, writes no
\* object and returns nil.
C25_TakesDeletionPath ==
    (nsr.pc = "get" /\ nsr' # nsr /\ ~nsr'.res.done /\ nsr.req \notin DOMAIN namespaces)
    => nsr'.pc = "listdel" /\ UNCHANGED <<objects, ap, calls>>

C25_CleansForAll ==
    (nsr.pc = "listdel" /\ nsr' # nsr /\ nsr'.res.err = "")
    => /\ nsr'.pc = "idle" /\ nsr'.res.done /\ ~nsr'.res.requeue
       /\ Len(nsr'.trace) = Cardinality(DOMAIN configs)
       /\ {nsr'.trace[i].config : i \in DOMAIN nsr'.trace} = DOMAIN configs
       /\ \A i \in DOMAIN nsr'.trace : nsr'.trace[i].op = "cleanup"
       /\ UNCHANGED <<objects, ap, calls>>

C25_DeletionCleansEveryDeclaration ==
    [][C25_TakesDeletionPath /\ C25_CleansForAll]_vars

\* prod-a is gone: cleanup ran for c0, whose regex does not compile, for
\* c1, whose selector asks for a label, and for c2
C25_Witness ==
    /\ nsr.pc = "idle" /\ nsr.res.done /\ nsr.res.err = ""
    /\ nsr.req = "prod-a" /\ "prod-a" \notin DOMAIN namespaces
    /\ nsr.ns = NoNs
    /\ nsr.trace = <<[config |-> "c0", op |-> "cleanup", err |-> ""],
                     [config |-> "c1", op |-> "cleanup", err |-> ""],
                     [config |-> "c2", op |-> "cleanup", err |-> ""]>>
    /\ RegexpMatchString(configs["c0"].selector.nameRegex.v, "prod-a").err
    /\ ~NamespaceMatches(ProdA, configs["c1"].selector).matched

\* ---- C26 ---------------------------------------------------------------
\* C26, as the spec has it: with both reconcilers scheduled fairly and a
\* store that fails finitely often, for a declaration that stays valid and
\* in the store, eventually every matching namespace holds the object of
\* every Role and RoleBinding template, is listed in
\* status.appliedNamespaces, and Ready is True. A run whose last pass met a
\* store error is one where the store did not yet succeed.
C26_StoreErrors == {"forbidden", "conflict", "retries", "alreadyexists"}

C26_Matching ==
    {n \in DOMAIN namespaces :
       LET m == NamespaceMatches(namespaces[n], configs["c1"].selector)
       IN  ~m.err /\ m.matched}

C26_HasObjects(n) ==
    \A kind \in {"Role", "RoleBinding"} :
       \A i \in DOMAIN TemplatesOf(configs["c1"], kind) :
          LET b == BuildObject(kind, namespaces[n], configs["c1"],
                               TemplatesOf(configs["c1"], kind)[i])
          IN  ~b.err /\ KeyOf(b.obj) \in DOMAIN objects

C26_Converged ==
    /\ C18_Has(configs["c1"].status, ConditionTypeReady, "True")
    /\ \A n \in C26_Matching :
          /\ C26_HasObjects(n)
          /\ n \in Range(configs["c1"].status.appliedNamespaces)

C26_StoreFailedLast ==
    /\ cfr.pc = "idle" /\ cfr.n = MaxPasses /\ cfr.res.done
    /\ \/ cfr.res.err \in C26_StoreErrors
       \/ cfr.errVar \in C26_StoreErrors
       \/ \E i \in DOMAIN cfr.trace : cfr.trace[i].err \in C26_StoreErrors

C26_Substitutes ==
    \A n \in C26_Matching :
       \A kind \in Range(ApplyPhases) :
          \A i \in DOMAIN TemplatesOf(configs["c1"], kind) :
             ~BuildObject(kind, namespaces[n], configs["c1"],
                          TemplatesOf(configs["c1"], kind)[i]).err

C26_StuckForever ==
    ~C26_Substitutes =>
        /\ ~C18_Has(configs["c1"].status, ConditionTypeReady, "True")
        /\ configs["c1"].status.appliedNamespaces = <<>>

C27_RegexBroken ==
    /\ ~mIn.selector.nameRegex.isNil
    /\ mIn.selector.nameRegex.v \notin DOMAIN RegexLanguage

C27_RejectedByLists ==
    \/ mIn.ns.name \in Range(mIn.selector.excludeNamespaces)
    \/ /\ Len(mIn.selector.includeNamespaces) > 0
       /\ mIn.ns.name \notin Range(mIn.selector.includeNamespaces)

C27_RegexFailureIsError ==
    (mOut.called /\ C27_RegexBroken /\ ~C27_RejectedByLists)
        => (mOut.err /\ ~mOut.matched)

\* a broken regex on a namespace that the include list and the labels accept
C27_Witness ==
    /\ mOut.called /\ mOut.err
    /\ C27_RegexBroken
    /\ mIn.ns.name \in Range(mIn.selector.includeNamespaces)
    /\ ~mIn.selector.labels.isNil /\ ~mIn.ns.labels.isNil
    /\ RequiredEntriesHold(mIn.selector.labels, mIn.ns.labels)

\* ---- C28 ---------------------------------------------------------------
\* C28: ProcessTemplate returns an error, and no string, for every template
\* with a direct reference to a field that the context does not have or to
\* a key that the label, annotation or custom variable map does not have.
C28_Absent(part, ctx) ==
    \/ part.t = "field"
    \/ part.t = "label" /\ (ctx.labels.isNil \/ part.v \notin DOMAIN ctx.labels.kv)
    \/ part.t = "annotation"
          /\ (ctx.annotations.isNil \/ part.v \notin DOMAIN ctx.annotations.kv)
    \/ part.t = "customVar"
          /\ (ctx.customVars.isNil \/ part.v \notin DOMAIN ctx.customVars.kv)

C28_RefersToAbsent ==
    /\ mIn.fn = "ProcessTemplate"
    /\ \E i \in DOMAIN mIn.templateStr : C28_Absent(mIn.templateStr[i], mIn.ctx)

C28_CustomVarWitness ==
    /\ mOut.called /\ mOut.err
    /\ mIn.fn = "ProcessTemplate"
    /\ mIn.templateStr = <<CustomVarRef("owner")>>
    /\ mIn.ctx.customVars = GoMap({}, <<>>)

\* ---- C29 ---------------------------------------------------------------
\* C29: getOrDefault(m, k, d) is m[k] when k is a key of m and d otherwise,
\* nil map included; hasKey(m, k) is true exactly when k is a key of m, and
\* false for a nil map; default(fallback, value) is the fallback when the
\* value is nil or the empty string, and the value otherwise.
C29_IsKey == ~mIn.m.isNil /\ mIn.key \in DOMAIN mIn.m.kv

C29_GetOrDefault ==
    (mOut.called /\ mIn.fn = "getOrDefault") =>
        mOut.val = IF C29_IsKey THEN mIn.m.kv[mIn.key] ELSE mIn.defaultVal

C29_HasKey ==
    (mOut.called /\ mIn.fn = "hasKey") => (mOut.val <=> C29_IsKey)

C29_Default ==
    (mOut.called /\ mIn.fn = "default") =>
        mOut.val = IF mIn.val = NilPtr \/ mIn.val = Ptr("") THEN mIn.defaultVal
                   ELSE mIn.val

C29_BuiltinsTotal == C29_GetOrDefault /\ C29_HasKey /\ C29_Default

\* getOrDefault on a nil map gave the default
C29_Witness ==
    /\ mOut.called /\ mIn.fn = "getOrDefault"
    /\ mIn.m.isNil /\ mIn.defaultVal = "none" /\ mOut.val = "none"

\* getOrDefault on a key whose value is the empty string gave that value
C29_EmptyValueWitness ==
    /\ mOut.called /\ mIn.fn = "getOrDefault"
    /\ C29_IsKey /\ mIn.m.kv[mIn.key] = "" /\ mIn.defaultVal = "none" /\ mOut.val = ""

\* default on nil gave the fallback, hasKey on a nil map gave false
C29_DefaultWitness ==
    /\ mOut.called /\ mIn.fn = "default" /\ mIn.val = NilPtr /\ mOut.val = Ptr("none")

C29_HasKeyWitness ==
    /\ mOut.called /\ mIn.fn = "hasKey" /\ mIn.m.isNil /\ mOut.val = FALSE

C30_NewChecker ==
    (mIn.op = "NewChecker" /\ mIn.advances = 0)
        => (IsHealthy(healthy, mIn) /\ ~IsReady(mIn))

C30_Probes ==
    mOut.called =>
        /\ mOut.fn = "LivenessCheck" => (~mOut.err <=> mOut.isHealthy)
        /\ mOut.fn = "ReadinessCheck" => (~mOut.err <=> (mOut.isReady /\ mOut.isHealthy))
        /\ ~mOut.flag => ~mOut.isHealthy

C30_StoredStale ==
    (mOut.called /\ mOut.now - mOut.lastReconcile * TicksPerSecond > 5 * Minute)
        => ~mOut.isHealthy

C30_Recovers ==
    (~healthy /\ healthy') => mIn'.op \in {"RecordReconcile", "SetHealthy(true)"}

C30_RefreshedWitness ==
    /\ mOut.called /\ mOut.isHealthy /\ ~mOut.err
    /\ mOut.reconciled >= 0 /\ mOut.now - mOut.reconciled > 5 * Minute

\* ---- C31 ---------------------------------------------------------------
\* C31: in either reconciler, when the store refuses (an error that is
\* neither not-found nor a version conflict) the fetch of the key, the list,
\* or a call made while applying templates, the health flag is unhealthy
\* when that Reconcile invocation ends.
C31_NsRefused ==
    \/ nsr.res.err = "forbidden"
    \/ \E i \in DOMAIN nsr.trace :
          nsr.trace[i].op = "apply" /\ nsr.trace[i].err = "forbidden"

C31_NsEnds == nsr.pc # "idle" /\ nsr'.pc = "idle" /\ nsr'.res.done

C31_NsMarksUnhealthy ==
    [][(C31_NsEnds /\ C31_NsRefused') => ~healthy']_vars

\* the part of C31 that the NamespaceReconciler keeps: a refused fetch or
\* list ends the pass with the error and the flag unhealthy
C31_NsFetchOrList ==
    [][(C31_NsEnds /\ nsr'.res.err = "forbidden") => ~healthy']_vars

\* the same for the NamespaceRBACConfigReconciler, apply included
C31_CfRefused ==
    \/ cfr.res.err = "forbidden" /\ cfr.trace = <<>>
    \/ cfr.errVar = "forbidden"

C31_CfEnds == cfr.pc # "idle" /\ cfr'.pc = "idle" /\ cfr'.res.done

C31_CfMarksUnhealthy ==
    [][(C31_CfEnds /\ C31_CfRefused') => ~healthy']_vars


C31_CfApplyWitness ==
    /\ cfr.pc = "idle" /\ cfr.res.done /\ cfr.errVar = "forbidden" /\ ~healthy
    /\ \E i \in DOMAIN cfr.trace : cfr.trace[i].op = "apply" /\ cfr.trace[i].err = "forbidden"

C31_CfGetWitness ==
    /\ cfr.pc = "idle" /\ cfr.res.done /\ cfr.res.err = "forbidden" /\ cfr.trace = <<>>
    /\ ~healthy

\* ---- C32 ---------------------------------------------------------------
\* C32: on every attempt of the merge strategy for a Role or a RoleBinding,
\* an attempt after a version conflict included, the payload that goes to
\* m.Update is the merge of the payload fetched in that attempt with the
\* template's payload.
C32_Fetches ==
    /\ ap["mgr"].pc = "get" /\ ap'["mgr"].pc = "update"
    /\ ap["mgr"].obj.kind \in {"Role", "RoleBinding"}
    /\ EffectiveStrategy(ap["mgr"].cfg) = "merge"

C32_TemplatePayload ==
    BuildObject(ap["mgr"].obj.kind, ap["mgr"].ns, ap["mgr"].cfg, MgrTemplate).obj

C32_Fetched == objects[KeyOf(ap["mgr"].obj)]

C32_MergeOfFetched ==
    IF ap["mgr"].obj.kind = "Role"
    THEN ap'["mgr"].obj.rules = mergeRules(C32_Fetched.rules, C32_TemplatePayload.rules)
    ELSE ap'["mgr"].obj.subjects
            \in mergeSubjects(C32_Fetched.subjects, C32_TemplatePayload.subjects)

C32_MergesWhatItFetched == [][C32_Fetches => C32_MergeOfFetched]_vars

\* the part of C32 that holds: the first attempt of a template
C32_FirstAttempt ==
    [][(C32_Fetches /\ ap["mgr"].i = 0) => C32_MergeOfFetched]_vars

\* ---- C33 ---------------------------------------------------------------
\* C33: every update the manager sends carries the version token of the
\* object fetched in the same attempt; the store rejects it with a version
\* conflict when another writer changed the object after that fetch; what
\* the other writer changed is never overwritten from a stale read: the
\* rules and subjects that an update under merge writes are those of the
\* object as it stands and those of the template.
C33_Key == KeyOf(ap["mgr"].obj)

C33_Fetches == ap["mgr"].pc = "get" /\ ap'["mgr"].pc = "update"

C33_Updates ==
    /\ ap["mgr"].pc = "update" /\ ap'["mgr"].pc # "update"
    /\ objects' # objects

C33_TemplatePayload ==
    BuildObject(ap["mgr"].obj.kind, ap["mgr"].ns, ap["mgr"].cfg, MgrTemplate).obj

C33_CarriesFetchedToken ==
    [][C33_Fetches => ap'["mgr"].obj.rv = objects[C33_Key].rv]_vars

C33_RejectsStale ==
    [][(ap["mgr"].pc = "update" /\ ap'["mgr"].pc # "update"
          /\ C33_Key \in DOMAIN objects /\ objects[C33_Key].rv # ap["mgr"].obj.rv)
        => (objects' = objects /\ Last(calls'["mgr"]).res \in {"conflict", "forbidden"})]_vars

C33_NothingStale ==
    /\ Range(objects'[C33_Key].rules)
          \subseteq Range(objects[C33_Key].rules) \cup Range(C33_TemplatePayload.rules)
    /\ Range(objects'[C33_Key].subjects)
          \subseteq Range(objects[C33_Key].subjects) \cup Range(C33_TemplatePayload.subjects)

C33_WritesNothingStale ==
    [][(C33_Updates /\ EffectiveStrategy(ap["mgr"].cfg) = "merge") => C33_NothingStale]_vars

\* the same for the updates that no version conflict came before
C33_FirstAttempt ==
    [][(C33_Updates /\ EffectiveStrategy(ap["mgr"].cfg) = "merge" /\ ap["mgr"].i = 0)
        => C33_NothingStale]_vars

\* ---- C34 ---------------------------------------------------------------
\* C34: the create of createOrUpdate* is never retried. When the two
\* reconcilers apply the same template to the same namespace and the object
\* does not exist, both fetches can report not-found; the create that comes
\* second fails with already-exists, and that error ends the template and
\* the call, for Role and RoleBinding as for the cluster kinds.
C34_Loses(w) ==
    /\ ap[w].pc = "create"
    /\ ap'[w] # ap[w]
    /\ KeyOf(ap[w].obj) \in DOMAIN objects

C34_CreateNotRetried ==
    [][\A w \in {"cfr", "nsr"} :
          C34_Loses(w) =>
             /\ ap'[w].pc = "ret"
             /\ ap'[w].err \in {"alreadyexists", "forbidden"}
             /\ Last(calls'[w]).op = "create"
             /\ objects' = objects]_vars

C34_NotFoundThenLost(w, kind) ==
    /\ ap[w].pc = "ret" /\ ap[w].err = "alreadyexists"
    /\ Len(calls[w]) >= 2
    /\ Last(calls[w]).kind = kind
    /\ Last(calls[w]).op = "create" /\ Last(calls[w]).att = 0
    /\ calls[w][Len(calls[w]) - 1].op = "get"
    /\ calls[w][Len(calls[w]) - 1].res = "notfound"

\* both fetched not-found for the Role, the NamespaceRBACConfigReconciler
\* created it and the create of the NamespaceReconciler lost
C34_Witness ==
    /\ C34_NotFoundThenLost("nsr", "Role")
    /\ \E i \in DOMAIN calls["cfr"] :
          /\ calls["cfr"][i].kind = "Role" /\ calls["cfr"][i].op = "create"
          /\ calls["cfr"][i].res = ""

\* the same race on the RoleBinding, lost by the NamespaceRBACConfigReconciler
C34_BindingWitness == C34_NotFoundThenLost("cfr", "RoleBinding")

\* ---- C35 ---------------------------------------------------------------
\* C35: neither reconciler creates or updates an object from the templates
\* of a declaration that it fetched with a deletion timestamp.
C35_Writes(w) ==
    /\ ap[w].pc \in {"create", "update"}
    /\ ap'[w] # ap[w]
    /\ objects' # objects

C35_NoWriteForDeleting ==
    [][\A w \in {"cfr", "nsr"} : C35_Writes(w) => ~ap[w].cfg.deleting]_vars

\* the part of C35 that holds: the NamespaceRBACConfigReconciler makes no
\* call into ApplyRBACForNamespace for a declaration fetched as deleted
C35_CfTeardownOnly ==
    [][(ap["cfr"].pc \notin {"idle", "ret"} /\ ap'["cfr"] # ap["cfr"])
        => ~ap["cfr"].cfg.deleting]_vars

\* the NamespaceReconciler listed the declaration as deleted and created
\* its Role
C35_NsWroteForDeleting ==
    /\ ap["nsr"].pc # "idle" /\ ap["nsr"].cfg.deleting
    /\ Len(calls["nsr"]) > 0
    /\ Last(calls["nsr"]).op = "create" /\ Last(calls["nsr"]).res = ""

\* ---- C36 ---------------------------------------------------------------
\* C36: every status that the NamespaceRBACConfigReconciler persists holds
\* Progressing=False; the Progressing=True set at the start of a pass never
\* reaches the store.
C36_Persists ==
    /\ cfr.pc = "status" /\ cfr' # cfr
    /\ Last(cfr'.trace) = [op |-> "status", ns |-> "", err |-> ""]

C36_ProgressingFalse(status) ==
    /\ C18_Has(status, ConditionTypeProgressing, "False")
    /\ ~C18_Has(status, ConditionTypeProgressing, "True")

C36_PersistsFalse == [][C36_Persists => C36_ProgressingFalse(configs'[cfr.req].status)]_vars

C36_NeverStoredTrue ==
    \A c \in DOMAIN configs : ~C18_Has(configs[c].status, ConditionTypeProgressing, "True")

C36_ProgressingNeverObserved == [](C36_NeverStoredTrue) /\ C36_PersistsFalse

\* a failed pass persisted its status, Progressing=False in it
C36_Witness ==
    /\ cfr.pc = "idle" /\ cfr.res.done /\ cfr.errVar # ""
    /\ Len(cfr.trace) > 0
    /\ Last(cfr.trace) = [op |-> "status", ns |-> "", err |-> ""]
    /\ "c1" \in DOMAIN configs
    /\ C18_Has(configs["c1"].status, ConditionTypeProgressing, "False")
    /\ C18_Has(configs["c1"].status, ConditionTypeDegraded, "True")

\* ---- C37 ---------------------------------------------------------------
\* C37: every status that the NamespaceRBACConfigReconciler persists, on a
\* declaration that began without conditions, holds exactly one condition
\* of each of the types Progressing, Ready and Degraded, and Ready is True
\* exactly when Degraded is False.
C37_Count(status, conditionType) ==
    Cardinality({i \in DOMAIN status.conditions :
                    status.conditions[i].type = conditionType})

C37_WellFormed(status) ==
    /\ Len(status.conditions) = 3
    /\ \A conditionType \in {ConditionTypeProgressing, ConditionTypeReady,
                             ConditionTypeDegraded} :
          C37_Count(status, conditionType) = 1
    /\ C18_Has(status, ConditionTypeReady, "True")
          <=> C18_Has(status, ConditionTypeDegraded, "False")
    /\ C18_Has(status, ConditionTypeReady, "False")
          <=> C18_Has(status, ConditionTypeDegraded, "True")

C37_PersistsWellFormed ==
    [][C36_Persists => C37_WellFormed(configs'[cfr.req].status)]_vars

C37_StoredWellFormed ==
    \A c \in DOMAIN configs :
       configs[c].status.conditions # <<>> => C37_WellFormed(configs[c].status)

C37_OneOfEachType == [](C37_StoredWellFormed) /\ C37_PersistsWellFormed

\* the second pass persisted Ready over the Degraded of the first
C37_Witness ==
    /\ cfr.pc = "idle" /\ cfr.res.done /\ cfr.n = 2
    /\ Len(cfr.trace) > 0
    /\ Last(cfr.trace) = [op |-> "status", ns |-> "", err |-> ""]
    /\ "c1" \in DOMAIN configs
    /\ C18_Has(configs["c1"].status, ConditionTypeReady, "True")
    /\ C21_Condition(configs["c1"].status, ConditionTypeReady).lastTransitionTime = 2
    /\ C21_Condition(configs["c1"].status, ConditionTypeDegraded).lastTransitionTime = 2


\* ------------------------------------------------------------------------
\* SpecOwner: SpecMgr with a manager whose client has either main's scheme
\* or one without the core kinds, and a declaration with or without Role
\* templates

OwnerSchemes == {MainScheme, MainScheme \ {"Namespace"}}

OwnerTemplates == {FullTemplates, [FullTemplates EXCEPT !.roles = <<>>]}

InitOwner ==
    /\ MatchUnused
    /\ objects \in InitStores
    /\ namespaces = [n \in {"dev-a", "prod-a"} |-> IF n = "dev-a" THEN DevA ELSE ProdA]
    /\ \E strategy \in StrategyPtrs, templates \in OwnerTemplates :
         configs = [c \in {"c1"} |-> Config("c1", AnySelector, templates, strategy, TRUE)]
    /\ \E sch \in OwnerSchemes : ap = [w \in Workers |-> [IdleFrame EXCEPT !.scheme = sch]]
    /\ calls = [w \in Workers |-> <<>>]
    /\ MgrIdle /\ ReconcilersIdle /\ NoInterference

SpecOwner == InitOwner /\ [][NextMgr]_vars

\* ------------------------------------------------------------------------
\* C38

\* the manager's Create or Update took effect in this step
C38_Writes ==
    /\ ap["mgr"].pc \in {"create", "update"}
    /\ ap'["mgr"] # ap["mgr"]
    /\ objects' # objects

C38_Written == objects'[KeyOf(ap["mgr"].obj)]

\* every object the manager creates or rewrites names the namespace of the
\* call as its owner when it is a Role or a RoleBinding, and no owner when
\* it is a ClusterRole or a ClusterRoleBinding
C38_WritesCarryOwner ==
    [][C38_Writes =>
         C38_Written.owner = IF NamespaceScoped(C38_Written.kind)
                             THEN ap["mgr"].ns.name ELSE ""]_vars

\* a manager whose scheme cannot name the owner makes no store call, read
\* or write, for a Role or RoleBinding template, and returns the error
C38_NoCallWithoutOwner ==
    "Namespace" \notin ap["mgr"].scheme =>
        /\ \A i \in DOMAIN calls["mgr"] : ~NamespaceScoped(calls["mgr"][i].kind)
        /\ ap["mgr"].pc \in {"get", "create", "update", "probe"} =>
               ~NamespaceScoped(ap["mgr"].obj.kind)

C38_OwnerFailureReturns ==
    [][/\ ap["mgr"].pc = "next"
       /\ ap'["mgr"].pc = "ret"
       /\ ap'["mgr"].err = "ownerref"
       => objects' = objects /\ calls' = calls]_vars

\* C38: every Role and RoleBinding the manager creates, and every one it
\* rewrites under merge or replace, carries an owner reference to the
\* namespace of the call, no ClusterRole or ClusterRoleBinding it writes
\* carries one, and when setting the owner reference fails no store write
\* is made for that template
C38_OwnerReferences ==
    /\ C38_WritesCarryOwner
    /\ [](C38_NoCallWithoutOwner)
    /\ C38_OwnerFailureReturns

\* a Role that a user made without an owner was rewritten under merge and
\* now names dev-a as its owner, next to a ClusterRole written without one
C38_Witness ==
    LET role == [kind |-> "Role", namespace |-> "dev-a", name |-> <<"reader-", "dev-a">>]
        cr == [kind |-> "ClusterRole", namespace |-> "", name |-> <<"cluster-reader">>]
    IN  /\ EffectiveStrategy(configs["c1"]) = "merge"
        /\ role \in DOMAIN objects /\ cr \in DOMAIN objects
        /\ objects[role].rv > 1 /\ objects[role].owner = "dev-a"
        /\ "old.rule" \in Range(objects[role].rules)
        /\ objects[cr].rv > 1 /\ objects[cr].owner = ""

\* the call wrote the ClusterRole and returned at the RoleBinding template,
\* whose owner it could not set
C38_FailureWitness ==
    /\ "Namespace" \notin ap["mgr"].scheme
    /\ ap["mgr"].pc = "ret" /\ ap["mgr"].err = "ownerref"
    /\ \E i \in DOMAIN calls["mgr"] :
         calls["mgr"][i].kind = "ClusterRole" /\ calls["mgr"][i].op \in {"create", "update"}
            /\ calls["mgr"][i].res = ""

\* a RoleBinding created with its owner
C38_CreatedWitness ==
    LET rb == [kind |-> "RoleBinding", namespace |-> "prod-a", name |-> <<"bind-", "prod-a">>]
    IN  rb \in DOMAIN objects /\ objects[rb].owner = "prod-a"


\* ------------------------------------------------------------------------
\* C39

C39_Ended == cfr.pc = "idle" /\ cfr.res.done

C39_TraceError(ops) ==
    \E i \in DOMAIN cfr.trace : cfr.trace[i].op \in ops /\ cfr.trace[i].err # ""

\* the pass returned an error (a failed r.Get, r.Update or status write), or
\* validateConfig or reconcileRBAC failed in it
C39_Failed ==
    \/ cfr.res.err # ""
    \/ cfr.errVar # ""
    \/ C39_TraceError({"validate", "apply"})

\* C39: every pass of the declaration reconciler that ended in a failure
\* (validation, apply, or a failed finalizer or status write) is counted by
\* RecordReconciliation with result=error, and a pass is counted with
\* result=success only when it completed without failure
C39_FailuresCounted ==
    C39_Ended =>
        /\ C39_Failed => cfr.recorded = "error"
        /\ cfr.recorded = "success" => ~C39_Failed

\* what holds: a pass whose r.Get or reconcileRBAC failed is counted as an
\* error, and a pass without failure as a success once r.Get found the
\* declaration
C39_ErrVarCounted ==
    C39_Ended =>
        /\ (cfr.errVar \notin {"", "notfound"} \/ C39_TraceError({"apply"}))
               => cfr.recorded = "error"
        /\ (~C39_Failed /\ cfr.trace # <<>>) => cfr.recorded = "success"

\* validateConfig rejected the declaration and the pass was counted as a
\* success
C39_ValidationCountedSuccess ==
    /\ C39_Ended
    /\ C39_TraceError({"validate"})
    /\ cfr.recorded = "success"

\* the write of the finalizer was refused and the pass was counted as a
\* success
C39_UpdateCountedSuccess ==
    /\ C39_Ended
    /\ C39_TraceError({"update"}) /\ cfr.res.err # ""
    /\ cfr.recorded = "success"

\* the status write of a good pass was refused and the pass was counted as
\* a success
C39_StatusCountedSuccess ==
    /\ C39_Ended
    /\ C39_TraceError({"status"}) /\ cfr.res.err # ""
    /\ cfr.recorded = "success"

\* an apply failure counted as an error
C39_ApplyCountedError ==
    /\ C39_Ended
    /\ C39_TraceError({"apply"})
    /\ cfr.recorded = "error"


\* ------------------------------------------------------------------------
\* metrics.categorizeError. A message is a sequence of characters; an error
\* is nil, or has the reason of its API status ("" when it has none) and
\* its message.

MaxWords == 3

UpperCase ==
    <<"A", "B", "C", "D", "E", "F", "G", "H", "I", "J", "K", "L", "M",
      "N", "O", "P", "Q", "R", "S", "T", "U", "V", "W", "X", "Y", "Z">>

LowerCase ==
    <<"a", "b", "c", "d", "e", "f", "g", "h", "i", "j", "k", "l", "m",
      "n", "o", "p", "q", "r", "s", "t", "u", "v", "w", "x", "y", "z">>

\* strings.ToLower
ToLower(str) ==
    [i \in DOMAIN str |->
        IF \E j \in DOMAIN UpperCase : UpperCase[j] = str[i]
        THEN LowerCase[CHOOSE j \in DOMAIN UpperCase : UpperCase[j] = str[i]]
        ELSE str[i]]

\* strings.Contains
Contains(str, substr) ==
    \E i \in 0..(Len(str) - Len(substr)) :
        \A j \in DOMAIN substr : str[i + j] = substr[j]

Kw_template == <<"t", "e", "m", "p", "l", "a", "t", "e">>

Kw_validation == <<"v", "a", "l", "i", "d", "a", "t", "i", "o", "n">>

Kw_invalid == <<"i", "n", "v", "a", "l", "i", "d">>

Kw_regex == <<"r", "e", "g", "e", "x">>

Kw_timeout == <<"t", "i", "m", "e", "o", "u", "t">>

Kw_connection == <<"c", "o", "n", "n", "e", "c", "t", "i", "o", "n">>

Kw_network == <<"n", "e", "t", "w", "o", "r", "k">>

NilError == [isNil |-> TRUE, reason |-> "", msg |-> <<>>]

\* categorizeError: the status checks in the code's order, then the
\* keywords in the code's order
categorizeError(err) ==
    LET errStrLower == ToLower(err.msg)
    IN  CASE err.isNil -> "none"
          [] ~err.isNil /\ err.reason = "NotFound" -> "not_found"
          [] ~err.isNil /\ err.reason = "Conflict" -> "conflict"
          [] ~err.isNil /\ err.reason = "Timeout" -> "timeout"
          [] ~err.isNil /\ err.reason = "Unauthorized" -> "unauthorized"
          [] ~err.isNil /\ err.reason = "Forbidden" -> "forbidden"
          [] OTHER ->
               IF Contains(errStrLower, Kw_template) THEN "template"
               ELSE IF Contains(errStrLower, Kw_validation)
                       \/ Contains(errStrLower, Kw_invalid) THEN "validation"
               ELSE IF Contains(errStrLower, Kw_regex) THEN "regex"
               ELSE IF Contains(errStrLower, Kw_timeout) THEN "timeout"
               ELSE IF Contains(errStrLower, Kw_connection)
                       \/ Contains(errStrLower, Kw_network) THEN "network"
               ELSE "unknown"

\* RecordReconciliation: the result label and, for an error, the label of
\* ReconciliationErrors
RecordReconciliation(err) ==
    IF err.isNil THEN [result |-> "success", errorType |-> ""]
    ELSE [result |-> "error", errorType |-> categorizeError(err)]

\* ------------------------------------------------------------------------
\* SpecCategorize: categorizeError and RecordReconciliation on nil, on the
\* errors of the API statuses and on every message of MaxWords words at
\* most

Word_Template == <<"T">> \o Tail(Kw_template)

Word_refused == <<"r", "e", "f", "u", "s", "e", "d">>

Word_pattern == <<"p", "a", "t", "t", "e", "r", "n">>

Words ==
    {Kw_template, Word_Template, Kw_validation, Kw_invalid, Kw_regex, Word_pattern,
     Kw_timeout, Kw_connection, Word_refused, Kw_network}

\* the words with a space between them
RECURSIVE Join(_)
Join(ws) ==
    IF ws = <<>> THEN <<>>
    ELSE IF Len(ws) = 1 THEN ws[1]
    ELSE ws[1] \o <<" ">> \o Join(Tail(ws))

Messages == {Join(ws) : ws \in UNION {[1..n -> Words] : n \in 0..MaxWords}}

\* "" for errors.New, and the reasons of the k8s errors package that the
\* code asks for, and one it does not
Reasons == {"", "NotFound", "Conflict", "Timeout", "Unauthorized", "Forbidden", "AlreadyExists"}

CategorizeInputs ==
    {NilError} \cup [isNil : {FALSE}, reason : Reasons, msg : Messages]

InitCategorize ==
    /\ mIn \in [fn : {"categorizeError", "RecordReconciliation"}, err : CategorizeInputs]
    /\ mOut = NoResult
    /\ objects = StoreOf({}) /\ namespaces = <<>> /\ configs = <<>>
    /\ WorkersIdle /\ MgrIdle /\ ReconcilersIdle /\ NoInterference

CategorizeErrorCall ==
    /\ ~mOut.called /\ mIn.fn = "categorizeError"
    /\ mOut' = [called |-> TRUE, val |-> categorizeError(mIn.err)]
    /\ UNCHANGED <<mIn, objects, namespaces, configs, ap, calls, mgr, nsr, cfr,
                   healthy, faults, extWrites>>

RecordReconciliationCall ==
    /\ ~mOut.called /\ mIn.fn = "RecordReconciliation"
    /\ mOut' = [called |-> TRUE, val |-> RecordReconciliation(mIn.err)]
    /\ UNCHANGED <<mIn, objects, namespaces, configs, ap, calls, mgr, nsr, cfr,
                   healthy, faults, extWrites>>

NextCategorize == CategorizeErrorCall \/ RecordReconciliationCall

SpecCategorize == InitCategorize /\ [][NextCategorize]_vars

\* ------------------------------------------------------------------------
\* C40

C40_Called == mOut.called /\ mIn.fn = "categorizeError"

C40_StatusCategory ==
    [NotFound |-> "not_found", Conflict |-> "conflict", Timeout |-> "timeout",
     Unauthorized |-> "unauthorized", Forbidden |-> "forbidden"]

C40_Mentions(kw) == Contains(ToLower(mIn.err.msg), kw)

\* the categories whose keyword the message mentions
C40_Named ==
    {c \in {"template", "validation", "regex", "network"} :
        CASE c = "template" -> C40_Mentions(Kw_template)
          [] c = "validation" -> C40_Mentions(Kw_validation)
          [] c = "regex" -> C40_Mentions(Kw_regex)
          [] OTHER -> C40_Mentions(Kw_connection) \/ C40_Mentions(Kw_network)}

\* C40: categorizeError returns none for nil; not_found, conflict, timeout,
\* unauthorized or forbidden for an error with that API status; and for any
\* other error a category whose keyword its message mentions (template,
\* validation, regex, connection or network), unknown when it mentions none
C40_CategoryByKeyword ==
    C40_Called =>
        IF mIn.err.isNil THEN mOut.val = "none"
        ELSE IF mIn.err.reason \in DOMAIN C40_StatusCategory
        THEN mOut.val = C40_StatusCategory[mIn.err.reason]
        ELSE IF C40_Named = {} THEN mOut.val = "unknown"
        ELSE mOut.val \in C40_Named

\* what holds: the same for nil, for the five statuses, and for the messages
\* that mention neither "invalid" nor "timeout"
C40_WithoutInvalidOrTimeout ==
    (C40_Called /\ (\/ mIn.err.isNil
                    \/ mIn.err.reason \in DOMAIN C40_StatusCategory
                    \/ ~C40_Mentions(Kw_invalid) /\ ~C40_Mentions(Kw_timeout)))
    => C40_CategoryByKeyword

\* "invalid regex pattern" is put under validation
C40_InvalidRegexPattern ==
    /\ C40_Called
    /\ mIn.err = [isNil |-> FALSE, reason |-> "",
                  msg |-> Join(<<Kw_invalid, Kw_regex, Word_pattern>>)]
    /\ mOut.val = "validation"

\* a message that only mentions a timeout is put under timeout, not unknown
C40_TimeoutMessage ==
    /\ C40_Called
    /\ mIn.err = [isNil |-> FALSE, reason |-> "", msg |-> Join(<<Kw_timeout, Word_refused>>)]
    /\ mOut.val = "timeout"

============================================================================
